---- MODULE Spec2Model ----
(***************************************************************************)
(* Content-based recommendation core of the IGDB pipeline:                 *)
(*   ContentBasedRecommendationModel (training/recommendation_model.py)    *)
(*   GameFeatureExtractor            (training/feature_extractor.py)       *)
(* One model instance, its feature extractor and the files it saves to,    *)
(* driven by a single synchronous caller.                                  *)
(*                                                                         *)
(* Numbers.  Python floats are modelled as integers.  Feature values are   *)
(* integers (term counts, label codes, z-scores in units of 1/NumScale)    *)
(* and a similarity score is the signed squared cosine in units of         *)
(* 1/SimScale: an order-preserving image of the cosine that keeps its      *)
(* sign, its zeros, its symmetry and its ties.                             *)
(*                                                                         *)
(* Text.  A string is a sequence of units; a unit is a word or the single  *)
(* blank " ".  The empty sequence is the empty string.                     *)
(***************************************************************************)
EXTENDS Integers, Sequences, FiniteSets, TLC

VARIABLES
    games_data,         \* self.games_data
    game_features,      \* self.game_features
    similarity_matrix,  \* self.similarity_matrix
    is_trained,         \* self.is_trained
    feature_extractor,  \* self.feature_extractor (its fit state)
    files,              \* the filesystem: path -> pickled content
    ret,                \* the last call: operation, arguments, outcome
    ever_trained,       \* history: a train() succeeded or a trained model was loaded
    db,                 \* DataManager's database: the games and ingestion_log tables
    threads,            \* the concurrent queries on the model: position and locals
    http                \* the _make_request call in progress and what the server sent

vars == <<games_data, game_features, similarity_matrix, is_trained,
          feature_extractor, files, ret, ever_trained, db, threads, http>>

\* the state of the recommendation model and its files
model_vars == <<games_data, game_features, similarity_matrix, is_trained,
                feature_extractor, files, ever_trained>>

\* the state outside the recommendation model's synchronous caller
pipeline_vars == <<db, threads, http>>

----------------------------------------------------------------------------
(* Program constants *)

MinTrainingGames == 10
MinDf == 2
MaxDfPercent == 95
SummaryLimit == 200
GenreOverlapPercent == 80
DummyId == -1
DummyYear == 2024

(* Fixed-point units of the integer model of floats *)
NumScale == 2
SimScale == 100
\* top_k of the queries evaluate_model makes
EvalTopK == 5
\* a coverage of 1 is CoverageScale
CoverageScale == 100

(* Python's None in a numeric or identifier field *)
None == -1000

(* Bounds of the model *)
MaxGames == 11
MaxTopK == 2

----------------------------------------------------------------------------
(* Strings *)

Blank == " "

\* str.lower() on the units the corpora use
Lower(w) ==
    CASE w = "A"         -> "a"
      [] w = "Adventure" -> "adventure"
      [] w = "Game"      -> "game"
      [] w = "Puzzle"    -> "puzzle"
      [] w = "Quest"     -> "quest"
      [] w = "Racing"    -> "racing"
      [] w = "Shooter"   -> "shooter"
      [] OTHER           -> w

\* the units of a string that are not whitespace, in order: str.split()
Split(text) == SelectSeq(text, LAMBDA u : u # Blank)

\* " ".join(words)
RECURSIVE JoinWith(_, _)
JoinWith(sep, words) ==
    IF Len(words) = 0 THEN <<>>
    ELSE IF Len(words) = 1 THEN <<words[1]>>
    ELSE <<words[1], sep>> \o JoinWith(sep, Tail(words))

\* str.strip() leaves a non-empty string
NonBlank(text) == \E i \in 1..Len(text) : text[i] # Blank

\* ASCII order of the strings that are sorted anywhere in the model
Alphabet ==
    <<" ", "Action", "Adventure", "Arcade", "Fantasy", "Fighting", "Indie",
      "PC", "Platform", "PlayStation", "Puzzle", "RPG", "Racing", "Sci-Fi",
      "Shooter", "Strategy", "Switch", "Xbox",
      "adventure", "game", "puzzle", "quest", "racing", "shooter", "zzz", "|">>

Rank(w) == CHOOSE i \in 1..Len(Alphabet) : Alphabet[i] = w

\* a < b for strings given as sequences of units
RECURSIVE StrLess(_, _)
StrLess(a, b) ==
    IF Len(b) = 0 THEN FALSE
    ELSE IF Len(a) = 0 THEN TRUE
    ELSE IF a[1] = b[1] THEN StrLess(Tail(a), Tail(b))
    ELSE Rank(a[1]) < Rank(b[1])

\* sorted(set) for a set of strings
SortedStrings(S) ==
    LET smaller == [x \in S |-> Cardinality({y \in S : StrLess(y, x)})]
    IN  [p \in 1..Cardinality(S) |-> CHOOSE x \in S : smaller[x] = p - 1]

\* integer square root, by bisection
RECURSIVE Bisect(_, _, _)
Bisect(v, lo, hi) ==
    IF hi - lo <= 1 THEN lo
    ELSE LET mid == (lo + hi) \div 2
         IN  IF mid * mid <= v THEN Bisect(v, mid, hi) ELSE Bisect(v, lo, mid)

ISqrt(v) == Bisect(v, 0, v + 1)

RECURSIVE SumFrom(_, _)
SumFrom(s, k) == IF k > Len(s) THEN 0 ELSE s[k] + SumFrom(s, k + 1)

SumSeq(s) == SumFrom(s, 1)

----------------------------------------------------------------------------
(* Dictionaries *)

\* the dictionary without keys
EmptyDict == [k \in {} |-> 0]

\* dict.get(key, default)
Get(d, key, default) == IF key \in DOMAIN d THEN d[key] ELSE default

----------------------------------------------------------------------------
(* The corpora handed to train(): records with the fields DataTransformer  *)
(* writes (processing/data_transformer.py:150-186), ids unique.  train()   *)
(* takes any list of dictionaries, so a record's flags and its fields may  *)
(* disagree.                                                               *)

BaseSummary(i) ==
    CASE i = 1  -> <<"A", Blank, "adventure", Blank, "game">>
      [] i = 2  -> <<"shooter", Blank, "game">>
      [] i = 3  -> <<"puzzle", Blank, "adventure">>
      [] i = 4  -> <<"racing", Blank, "game">>
      [] i = 5  -> <<"game">>
      [] i = 6  -> <<"adventure", Blank, "quest">>
      [] i = 7  -> <<"puzzle", Blank, Blank, "game">>
      [] i = 8  -> <<"puzzle">>
      [] i = 9  -> <<"shooter">>
      [] OTHER  -> <<"adventure", Blank, "game">>

BaseName(i) ==
    CASE i = 1  -> <<"Adventure", Blank, "Game">>
      [] i = 3  -> <<"Puzzle", Blank, "Adventure">>
      [] i = 4  -> <<"Racing">>
      [] i = 6  -> <<"Quest">>
      [] OTHER  -> <<"Game">>

BaseGenres(i) ==
    CASE i = 1  -> <<"Adventure", "Puzzle">>
      [] i = 2  -> <<"Shooter", "Action">>
      [] i = 3  -> <<"Puzzle", "Adventure">>
      [] i = 4  -> <<"Racing">>
      [] i = 5  -> <<"Strategy">>
      [] i = 6  -> <<"RPG", "Adventure">>
      [] i = 7  -> <<"Platform", "Indie", "Puzzle", "Arcade", "Adventure">>
      [] i = 8  -> <<"Platform", "Indie", "Puzzle", "Arcade">>
      [] i = 9  -> <<"Platform", "Indie", "Puzzle", "Fighting">>
      [] i = 10 -> <<"Indie", "Platform", "Arcade", "Puzzle">>
      [] OTHER  -> <<"Indie", "Adventure">>

BasePlatforms(i) ==
    CASE i % 3 = 0 -> <<"Switch">>
      [] i % 3 = 1 -> <<"PC", "PlayStation">>
      [] OTHER     -> <<"Xbox", "PC">>

BaseThemes(i) == IF i % 2 = 0 THEN <<"Sci-Fi">> ELSE <<"Fantasy">>

BaseGame(i) ==
    [id             |-> i,
     name           |-> BaseName(i),
     summary        |-> BaseSummary(i),
     rating         |-> 78 + ((i * 5) % 14),
     rating_count   |-> 5 + ((i * 3) % 7),
     release_year   |-> 2021 + (i % 3),
     summary_length |-> Len(BaseSummary(i)),
     genre_names    |-> BaseGenres(i),
     platform_names |-> BasePlatforms(i),
     theme_names    |-> BaseThemes(i),
     has_summary    |-> TRUE,
     has_rating     |-> TRUE,
     has_genres     |-> TRUE]

\* the ways one record of a corpus departs from the complete record
FilteredKinds == {"no_summary", "blank_summary", "no_genres"}
KeptKinds == {"zero_genres", "no_rating", "no_id"}

Vary(kind, g) ==
    CASE kind = "no_summary"    ->
            [g EXCEPT !.summary = <<>>, !.summary_length = 0, !.has_summary = FALSE]
      [] kind = "blank_summary" ->
            [g EXCEPT !.summary = <<Blank, Blank>>, !.summary_length = 2]
      [] kind = "no_genres"     ->
            [g EXCEPT !.genre_names = <<>>, !.has_genres = FALSE]
      [] kind = "zero_genres"   ->
            [g EXCEPT !.genre_names = <<>>]
      [] kind = "no_rating"     ->
            [g EXCEPT !.rating = None, !.has_rating = FALSE]
      [] kind = "no_id"         ->
            [g EXCEPT !.id = None]
      [] OTHER                  -> g

\* where in the corpus the varied record is
PosOf(kind, n) ==
    CASE kind = "no_summary"    -> 2
      [] kind = "blank_summary" -> n
      [] kind = "no_genres"     -> 5
      [] kind = "zero_genres"   -> 1
      [] kind = "no_rating"     -> 3
      [] kind = "no_id"         -> 4
      [] OTHER                  -> 0

\* every record carries the same text: no term survives the max_df cut
Uniform(g) == [g EXCEPT !.summary = <<"game">>, !.name = <<"Game">>,
                        !.summary_length = 1]

Corpus(n, kind, uniform) ==
    [i \in 1..n |->
        LET g == IF i = PosOf(kind, n) THEN Vary(kind, BaseGame(i)) ELSE BaseGame(i)
        IN  IF uniform THEN Uniform(g) ELSE g]

\* the corpora the caller trains on
Corpora ==
    { Corpus(n, "none", FALSE) : n \in (MinTrainingGames - 1)..MaxGames }
    \cup { Corpus(n, kind, FALSE) : n \in {MinTrainingGames, MaxGames},
                                    kind \in FilteredKinds }
    \cup { Corpus(MaxGames, kind, FALSE) : kind \in KeptKinds \ {"no_rating"} }
    \cup { Corpus(MinTrainingGames, "none", TRUE) }

\* the corpora of the caller that also saves and loads
PersistCorpora ==
    { Corpus(MinTrainingGames - 1, "none", FALSE),
      Corpus(MinTrainingGames, "none", FALSE),
      Corpus(MaxGames, "no_rating", FALSE) }

----------------------------------------------------------------------------
(* GameFeatureExtractor *)

TextFeatures == <<"summary", "name">>
CategoricalFeatures == <<"genre_names", "platform_names", "theme_names">>
NumericalFeatures == <<"rating", "rating_count", "release_year", "summary_length">>

\* stop_words="english", as far as the corpora's words go
StopWords == {"a"}

Range(s) == {s[i] : i \in DOMAIN s}

IndexOf(s, x) == CHOOSE i \in DOMAIN s : s[i] = x

Count(x, s) == Cardinality({i \in DOMAIN s : s[i] = x})

\* a new GameFeatureExtractor
NewExtractor ==
    [config           |-> "feature_config",
     tfidf_vectorizer |-> [state |-> "none", vocabulary |-> <<>>],
     label_encoders   |-> <<>>,
     scaler           |-> [fitted |-> FALSE, mean |-> <<>>, scale |-> <<>>],
     feature_names    |-> <<>>,
     is_fitted        |-> FALSE]

_clean_text(text) ==
    IF Len(text) = 0 THEN <<>>
    ELSE JoinWith(Blank, [i \in 1..Len(Split(text)) |-> Lower(Split(text)[i])])

\* the text of one game: its cleaned text features joined by one blank
CombinedText(game) ==
    _clean_text(game[TextFeatures[1]]) \o <<Blank>> \o _clean_text(game[TextFeatures[2]])

\* the vectorizer's analyzer: words, stop words dropped, then 1- and 2-grams
Analyze(doc) == SelectSeq(doc, LAMBDA u : u # Blank /\ u \notin StopWords)

NGrams(tokens) ==
    [i \in 1..Len(tokens) |-> <<tokens[i]>>]
    \o [i \in 1..(Len(tokens) - 1) |-> <<tokens[i], Blank, tokens[i + 1]>>]

DocTerms(doc) == NGrams(Analyze(doc))

\* TfidfVectorizer.fit over analyzed documents (each the sequence of its terms):
\* the vocabulary, or the ValueError it raises.
\* max_features (1000) is above every vocabulary of the bounded corpora.
TfidfFit(docs) ==
    LET n     == Len(docs)
        terms == [i \in 1..n |-> Range(docs[i])]
        all   == UNION {terms[i] : i \in 1..n}
        df(t) == Cardinality({i \in 1..n : t \in terms[i]})
        kept  == {t \in all : df(t) >= MinDf /\ df(t) * 100 <= MaxDfPercent * n}
    IN  IF all = {} THEN [error |-> "EmptyVocabulary", vocabulary |-> <<>>]
        ELSE IF MaxDfPercent * n < MinDf * 100
             THEN [error |-> "MaxDfBelowMinDf", vocabulary |-> <<>>]
        ELSE IF kept = {} THEN [error |-> "NoTermsRemain", vocabulary |-> <<>>]
        ELSE [error |-> "none", vocabulary |-> SortedStrings(kept)]

\* TfidfVectorizer.transform of one document: a weight per vocabulary term
TfidfTransform(vocabulary, doc) ==
    [k \in 1..Len(vocabulary) |-> Count(vocabulary[k], doc)]

\* "|".join(str(v) for v in values)
CompositeLabel(game, feature_name) == JoinWith("|", game[feature_name])

\* LabelEncoder.fit: the sorted distinct labels
LabelFit(labels) == SortedStrings(Range(labels))

\* fault variant of the encoding: an unseen label gets the last code
LabelCodeLast(classes, label) ==
    IF label \in Range(classes) THEN IndexOf(classes, label) - 1 ELSE Len(classes) - 1

\* the code of a label under fitted classes; an unseen label gets 0
LabelCode(classes, label) ==
    IF label \in Range(classes) THEN IndexOf(classes, label) - 1 ELSE 0

\* float(value), None read as 0
NumValue(game, feature_name) ==
    IF game[feature_name] = None THEN 0 ELSE game[feature_name]

\* StandardScaler.fit over one column
ScalerFit(column) ==
    LET n    == Len(column)
        mean == SumSeq(column) \div n
        var  == SumSeq([i \in 1..n |-> (column[i] - mean) * (column[i] - mean)]) \div n
        std  == ISqrt(var)
    IN  [mean |-> mean, scale |-> IF std = 0 THEN 1 ELSE std]

Scale(mean, scale, x) == ((x - mean) * NumScale) \div scale

\* extract_text_features: [error, vectorizer, block]
extract_text_features(fx, games) ==
    LET docs == [i \in 1..Len(games) |-> DocTerms(CombinedText(games[i]))]
    IN  IF fx.config # "feature_config"
        THEN [error |-> "KeyError", vectorizer |-> fx.tfidf_vectorizer, block |-> <<>>]
        ELSE IF ~fx.is_fitted
        THEN LET fit == TfidfFit(docs)
             IN  IF fit.error # "none"
                 THEN [error      |-> fit.error,
                       vectorizer |-> [state |-> "unfitted", vocabulary |-> <<>>],
                       block      |-> <<>>]
                 ELSE [error      |-> "none",
                       vectorizer |-> [state |-> "fitted", vocabulary |-> fit.vocabulary],
                       block      |-> [i \in 1..Len(games) |->
                                          TfidfTransform(fit.vocabulary, docs[i])]]
        ELSE IF fx.tfidf_vectorizer.state = "none"
             THEN [error |-> "AttributeError", vectorizer |-> fx.tfidf_vectorizer,
                   block |-> <<>>]
        ELSE IF fx.tfidf_vectorizer.state = "unfitted"
             THEN [error |-> "NotFittedError", vectorizer |-> fx.tfidf_vectorizer,
                   block |-> <<>>]
        ELSE [error      |-> "none",
              vectorizer |-> fx.tfidf_vectorizer,
              block      |-> [i \in 1..Len(games) |->
                                 TfidfTransform(fx.tfidf_vectorizer.vocabulary, docs[i])]]

\* extract_categorical_features: [error, encoders, block]
extract_categorical_features(fx, games) ==
    LET cols   == 1..Len(CategoricalFeatures)
        labels == [c \in cols |->
                     [i \in 1..Len(games) |->
                         CompositeLabel(games[i], CategoricalFeatures[c])]]
    IN  IF ~fx.is_fitted
        THEN LET encoders == [c \in cols |-> LabelFit(labels[c])]
             IN  [error    |-> "none",
                  encoders |-> encoders,
                  block    |-> [i \in 1..Len(games) |->
                                   [c \in cols |-> LabelCode(encoders[c], labels[c][i])]]]
        ELSE IF Len(fx.label_encoders) = 0
             THEN [error |-> "KeyError", encoders |-> fx.label_encoders, block |-> <<>>]
        ELSE [error    |-> "none",
              encoders |-> fx.label_encoders,
              block    |-> [i \in 1..Len(games) |->
                               [c \in cols |-> LabelCode(fx.label_encoders[c], labels[c][i])]]]

\* extract_numerical_features: [error, scaler, block]
extract_numerical_features(fx, games) ==
    LET cols   == 1..Len(NumericalFeatures)
        column == [c \in cols |->
                     [i \in 1..Len(games) |-> NumValue(games[i], NumericalFeatures[c])]]
        scaled(sc) ==
            [i \in 1..Len(games) |->
                [c \in cols |-> Scale(sc.mean[c], sc.scale[c], column[c][i])]]
    IN  IF ~fx.is_fitted
        THEN LET fits == [c \in cols |-> ScalerFit(column[c])]
                 sc   == [fitted |-> TRUE,
                          mean   |-> [c \in cols |-> fits[c].mean],
                          scale  |-> [c \in cols |-> fits[c].scale]]
             IN  [error |-> "none", scaler |-> sc, block |-> scaled(sc)]
        ELSE IF ~fx.scaler.fitted
             THEN [error |-> "NotFittedError", scaler |-> fx.scaler, block |-> <<>>]
        ELSE [error |-> "none", scaler |-> fx.scaler, block |-> scaled(fx.scaler)]

FeatureNames(vectorizer) ==
    [k \in 1..Len(vectorizer.vocabulary) |-> <<"text", vectorizer.vocabulary[k]>>]
    \o [c \in 1..Len(CategoricalFeatures) |-> <<"cat", <<CategoricalFeatures[c]>>>>]
    \o [c \in 1..Len(NumericalFeatures) |-> <<"num", <<NumericalFeatures[c]>>>>]

\* extract_all_features once the numerical block n is there: the blocks are
\* stacked side by side, the names recorded, the extractor marked fitted
AfterNumerical(fx, t, c, n) ==
    IF n.error # "none"
    THEN [error |-> n.error, fx |-> [fx EXCEPT !.scaler = n.scaler], matrix |-> <<>>]
    ELSE [error  |-> "none",
          fx     |-> [fx EXCEPT !.scaler = n.scaler,
                                !.feature_names = FeatureNames(t.vectorizer),
                                !.is_fitted = TRUE],
          matrix |-> [i \in 1..Len(t.block) |-> t.block[i] \o c.block[i] \o n.block[i]]]

\* extract_all_features once the categorical block c is there
AfterCategorical(fx, games, t, c) ==
    LET fx2 == [fx EXCEPT !.label_encoders = c.encoders]
    IN  IF c.error # "none" THEN [error |-> c.error, fx |-> fx2, matrix |-> <<>>]
        ELSE AfterNumerical(fx2, t, c, extract_numerical_features(fx2, games))

\* extract_all_features once the text block t is there
AfterText(fx, games, t) ==
    LET fx1 == [fx EXCEPT !.tfidf_vectorizer = t.vectorizer]
    IN  IF t.error # "none" THEN [error |-> t.error, fx |-> fx1, matrix |-> <<>>]
        ELSE AfterCategorical(fx1, games, t, extract_categorical_features(fx1, games))

\* extract_all_features: [error, fx, matrix], fx the extractor's state afterwards
extract_all_features(fx, games) == AfterText(fx, games, extract_text_features(fx, games))

----------------------------------------------------------------------------
(* ContentBasedRecommendationModel *)

\* the instance's fields, as one value
Self ==
    [games_data        |-> games_data,
     game_features     |-> game_features,
     similarity_matrix |-> similarity_matrix,
     is_trained        |-> is_trained,
     feature_extractor |-> feature_extractor]

\* fault variant of the filter: the summary is not trimmed before the test
MeetsRequirementsUntrimmed(game) ==
    /\ Get(game, "has_summary", FALSE)
    /\ Get(game, "has_genres", FALSE)
    /\ Len(Get(game, "summary", <<>>)) > 0

\* the condition of the filter in prepare_data
MeetsRequirements(game) ==
    /\ Get(game, "has_summary", FALSE)
    /\ Get(game, "has_genres", FALSE)
    /\ NonBlank(Get(game, "summary", <<>>))

RECURSIVE FilterLoop(_, _)
FilterLoop(games, filtered_games) ==
    IF Len(games) = 0 THEN filtered_games
    ELSE FilterLoop(Tail(games),
                    IF MeetsRequirements(Head(games))
                    THEN Append(filtered_games, Head(games))
                    ELSE filtered_games)

prepare_data(games) == FilterLoop(games, <<>>)

RECURSIVE DotFrom(_, _, _)
DotFrom(a, b, k) == IF k > Len(a) THEN 0 ELSE a[k] * b[k] + DotFrom(a, b, k + 1)

Dot(a, b) == DotFrom(a, b, 1)

\* one entry of cosine_similarity, from the dot product and the squared norms;
\* a zero row has similarity 0 with every row
Cosine(d, na, nb) ==
    IF na = 0 \/ nb = 0 THEN 0
    ELSE (IF d < 0 THEN -1 ELSE 1) * ((d * d * SimScale) \div (na * nb))

\* cosine_similarity(X, Y): one row per row of X, one column per row of Y
cosine_similarity(X, Y) ==
    LET nx == [i \in 1..Len(X) |-> Dot(X[i], X[i])]
        ny == [j \in 1..Len(Y) |-> Dot(Y[j], Y[j])]
    IN  [i \in 1..Len(X) |-> [j \in 1..Len(Y) |-> Cosine(Dot(X[i], Y[j]), nx[i], ny[j])]]

\* fault variant of fill_diagonal: the diagonal is left as computed
KeepDiagonal(matrix) == matrix

\* np.fill_diagonal(matrix, 0)
fill_diagonal(matrix) ==
    [i \in 1..Len(matrix) |-> [j \in 1..Len(matrix[i]) |-> IF i = j THEN 0 ELSE matrix[i][j]]]

Max(S) == CHOOSE x \in S : \A y \in S : y <= x
Min(S) == CHOOSE x \in S : \A y \in S : x <= y

\* _calculate_training_metrics: [self, metrics]; the diagonal of
\* self.similarity_matrix is zeroed in place, the statistics are of that matrix
_calculate_training_metrics(self) ==
    LET matrix  == fill_diagonal(self.similarity_matrix)
        cells   == {matrix[i][j] : i \in 1..Len(matrix), j \in 1..Len(matrix)}
        total   == SumSeq([i \in 1..Len(matrix) |-> SumSeq(matrix[i])])
        ratings == SelectSeq(self.games_data, LAMBDA g : g.has_rating)
    IN  [self    |-> [self EXCEPT !.similarity_matrix = matrix],
         metrics |-> [avg_similarity     |-> total \div (Len(matrix) * Len(matrix)),
                      max_similarity     |-> Max(cells),
                      min_similarity     |-> Min(cells),
                      games_with_ratings |-> Len(ratings)]]

NoMetrics ==
    [avg_similarity |-> 0, max_similarity |-> 0, min_similarity |-> 0,
     games_with_ratings |-> 0]

\* fault variant of a failing train: is_trained is set before the failure
TrainRaisesTrained(self, error) ==
    [self |-> [self EXCEPT !.is_trained = TRUE], error |-> error,
     training_samples |-> 0, feature_count |-> 0, metrics |-> NoMetrics]

\* train leaving by an exception: the fields assigned so far stay assigned
TrainRaises(self, error) ==
    [self |-> self, error |-> error,
     training_samples |-> 0, feature_count |-> 0, metrics |-> NoMetrics]

\* the end of train, m the outcome of _calculate_training_metrics
TrainReturns(m) ==
    [self             |-> [m.self EXCEPT !.is_trained = TRUE],
     error            |-> "none",
     training_samples |-> Len(m.self.games_data),
     feature_count    |-> Len(m.self.game_features[1]),
     metrics          |-> m.metrics]

\* train once extract_all_features has come back with ex
TrainExtracted(self, ex) ==
    IF ex.error # "none"
    THEN TrainRaises([self EXCEPT !.feature_extractor = ex.fx], ex.error)
    ELSE TrainReturns(_calculate_training_metrics(
             [self EXCEPT !.feature_extractor = ex.fx,
                          !.game_features = ex.matrix,
                          !.similarity_matrix = cosine_similarity(ex.matrix, ex.matrix)]))

\* train once self.games_data is assigned
TrainPrepared(self) ==
    IF Len(self.games_data) < MinTrainingGames
    THEN TrainRaises(self, "InsufficientData")
    ELSE TrainExtracted(self, extract_all_features(self.feature_extractor,
                                                   self.games_data))

\* train(games): [self, error, training_samples, feature_count, metrics]
train(self, games) == TrainPrepared([self EXCEPT !.games_data = prepare_data(games)])

\* fault variant of the ranking: the reversal is left out
ArgsortAscending(similarities) ==
    LET n == Len(similarities)
        before(j, i) == \/ similarities[j] < similarities[i]
                        \/ similarities[j] = similarities[i] /\ j < i
        ahead == [i \in 1..n |-> Cardinality({j \in 1..n : before(j, i)})]
    IN  [p \in 1..n |-> CHOOSE i \in 1..n : ahead[i] = p - 1]

\* np.argsort(similarities)[::-1]: positions by descending score; argsort is
\* stable on rows this short, so reversed it leaves equal scores by descending index
ArgsortDescending(similarities) ==
    LET n == Len(similarities)
        before(j, i) == \/ similarities[j] > similarities[i]
                        \/ similarities[j] = similarities[i] /\ j > i
        ahead == [i \in 1..n |-> Cardinality({j \in 1..n : before(j, i)})]
    IN  [p \in 1..n |-> CHOOSE i \in 1..n : ahead[i] = p - 1]

\* fault variant of the ranking: the row is sorted where it lies
RowSortedInPlace(similarities) ==
    LET order == ArgsortDescending(similarities)
    IN  [p \in 1..Len(similarities) |-> similarities[order[p]]]

\* similarities is a view of the matrix row; np.argsort returns a new array
\* and leaves the row as it is
RowAfterRanking(similarities) == similarities

\* fault variant of the genre filter: strictly more than 80% is asked for
ShouldExcludeStrictly(target_game, candidate_game) ==
    LET target_genres    == Range(target_game.genre_names)
        candidate_genres == Range(candidate_game.genre_names)
    IN  Cardinality(target_genres \cap candidate_genres) * 100
            > Cardinality(target_genres) * GenreOverlapPercent

_should_exclude_game(target_game, candidate_game) ==
    LET target_genres    == Range(target_game.genre_names)
        candidate_genres == Range(candidate_game.genre_names)
    IN  Cardinality(target_genres \cap candidate_genres) * 100
            >= Cardinality(target_genres) * GenreOverlapPercent

\* the summary of an entry: cut at 200 units, with the ellipsis marker
TruncatedSummary(summary) ==
    IF Len(summary) > SummaryLimit
    THEN SubSeq(summary, 1, SummaryLimit) \o <<"...">>
    ELSE summary

Recommendation(game, similarity_score) ==
    [game_id          |-> game.id,
     name             |-> game.name,
     similarity_score |-> similarity_score,
     rating           |-> game.rating,
     genres           |-> game.genre_names,
     platforms        |-> game.platform_names,
     summary          |-> TruncatedSummary(game.summary)]

\* fault variant of the lookup: the scan starts at the second record
FindGameIndexFromSecond(games, game_id) ==
    IF \E i \in 2..Len(games) : games[i].id = game_id
    THEN Min({i \in 2..Len(games) : games[i].id = game_id})
    ELSE 0

\* the index of the first game with this id, 0 for Python's None
FindGameIndex(games, game_id) ==
    IF \E i \in 1..Len(games) : games[i].id = game_id
    THEN Min({i \in 1..Len(games) : games[i].id = game_id})
    ELSE 0

\* whether the loop has collected enough after an append
EnoughRecommendations(recommendations, top_k) == Len(recommendations) >= top_k

\* fault variant of the loop: the game itself is not skipped
SkipsNothing(idx, game_idx) == FALSE

\* the test that skips the game itself
SkipsSelf(idx, game_idx) == idx = game_idx

\* the loop of get_recommendations over similar_indices from position p on:
\* [error, recommendations]
RECURSIVE RecommendLoop(_, _, _, _, _, _, _)
RecommendLoop(self, similar_indices, p, game_idx, top_k, exclude_played, recommendations) ==
    IF p > Len(similar_indices)
    THEN [error |-> "none", recommendations |-> recommendations]
    ELSE LET idx == similar_indices[p]
         IN  IF SkipsSelf(idx, game_idx)
             THEN RecommendLoop(self, similar_indices, p + 1, game_idx, top_k,
                                exclude_played, recommendations)
             ELSE IF idx > Len(self.games_data)
             THEN [error |-> "IndexError", recommendations |-> <<>>]
             ELSE IF exclude_played
                     /\ _should_exclude_game(self.games_data[game_idx], self.games_data[idx])
             THEN RecommendLoop(self, similar_indices, p + 1, game_idx, top_k,
                                exclude_played, recommendations)
             ELSE LET more == Append(recommendations,
                                     Recommendation(self.games_data[idx],
                                                    self.similarity_matrix[game_idx][idx]))
                  IN  IF EnoughRecommendations(more, top_k)
                      THEN [error |-> "none", recommendations |-> more]
                      ELSE RecommendLoop(self, similar_indices, p + 1, game_idx, top_k,
                                         exclude_played, more)

NoRecommendations(error) == [error |-> error, recommendations |-> <<>>]

\* get_recommendations(game_id, top_k, exclude_played): [error, recommendations]
get_recommendations(self, game_id, top_k, exclude_played) ==
    LET game_idx == FindGameIndex(self.games_data, game_id)
    IN  IF ~self.is_trained THEN NoRecommendations("NotTrained")
        ELSE IF game_idx = 0 THEN NoRecommendations("NotFound")
        ELSE IF game_idx > Len(self.similarity_matrix) THEN NoRecommendations("IndexError")
        ELSE RecommendLoop(self, ArgsortDescending(self.similarity_matrix[game_idx]), 1,
                           game_idx, top_k, exclude_played, <<>>)

\* the mean of a sequence of scores, 0 for none
Mean(scores) == IF Len(scores) = 0 THEN 0 ELSE SumSeq(scores) \div Len(scores)

NoEvaluation == [test_samples |-> 0, avg_recommendation_quality |-> 0, coverage |-> 0]

\* a test game is covered when its query returned at least one entry
Covered(r) == r.error = "none" /\ Len(r.recommendations) > 0

\* evaluate_model once the query of every test game is answered (answers[i]);
\* a ValueError of a query is swallowed, any other error leaves the loop
Evaluated(test_games, answers) ==
    LET n       == Len(test_games)
        raised  == {i \in 1..n : answers[i].error \notin {"none", "NotFound", "NotTrained"}}
        covered == SelectSeq(answers, Covered)
        quality == [k \in 1..Len(covered) |->
                       Mean([j \in 1..Len(covered[k].recommendations) |->
                                covered[k].recommendations[j].similarity_score])]
    IN  IF raised # {}
        THEN [error |-> answers[Min(raised)].error, results |-> NoEvaluation]
        ELSE [error   |-> "none",
              results |-> [test_samples |-> n,
                           avg_recommendation_quality |-> Mean(quality),
                           coverage |-> IF n = 0 THEN 0
                                        ELSE (Len(covered) * CoverageScale) \div n]]

\* evaluate_model(test_games): [error, results]
evaluate_model(self, test_games) ==
    IF ~self.is_trained THEN [error |-> "NotTrained", results |-> NoEvaluation]
    ELSE Evaluated(test_games,
                   [i \in 1..Len(test_games) |->
                       get_recommendations(self, test_games[i].id, EvalTopK, FALSE)])

\* the loop of get_similar_games_by_text: [error, recommendations]
RECURSIVE TextLoop(_, _, _, _, _, _)
TextLoop(self, similarities, similar_indices, p, top_k, recommendations) ==
    IF p > Len(similar_indices)
    THEN [error |-> "none", recommendations |-> recommendations]
    ELSE LET idx == similar_indices[p]
         IN  IF idx > Len(self.games_data)
             THEN [error |-> "IndexError", recommendations |-> <<>>]
             ELSE LET more == Append(recommendations,
                                     Recommendation(self.games_data[idx], similarities[idx]))
                  IN  IF EnoughRecommendations(more, top_k)
                      THEN [error |-> "none", recommendations |-> more]
                      ELSE TextLoop(self, similarities, similar_indices, p + 1, top_k, more)

DummyGame(query_text) ==
    [id             |-> DummyId,
     name           |-> <<"Query">>,
     summary        |-> query_text,
     genre_names    |-> <<>>,
     platform_names |-> <<>>,
     theme_names    |-> <<>>,
     rating         |-> 0,
     rating_count   |-> 0,
     release_year   |-> DummyYear,
     summary_length |-> Len(query_text)]

\* fault variant of the finally clause: the flag stays as the call forced it
LeaveFitted(fx, original_is_fitted) == fx

\* the finally clause: is_fitted gets its value from before the call
RestoreFitted(fx, original_is_fitted) == [fx EXCEPT !.is_fitted = original_is_fitted]

\* get_similar_games_by_text once the query's similarities are there
TextRanked(self, similarities, top_k) ==
    [loop         |-> TextLoop(self, similarities, ArgsortDescending(similarities), 1,
                               top_k, <<>>),
     similarities |-> similarities]

\* get_similar_games_by_text once extract_all_features has come back with ex;
\* the finally clause puts is_fitted back on every path
TextExtracted(self, original_is_fitted, ex, top_k) ==
    LET restored == [self EXCEPT !.feature_extractor =
                                    RestoreFitted(ex.fx, original_is_fitted)]
        ranked   == TextRanked(self, cosine_similarity(ex.matrix, self.game_features)[1],
                               top_k)
    IN  IF ex.error # "none"
        THEN [self |-> restored, error |-> ex.error, recommendations |-> <<>>,
              similarities |-> <<>>]
        ELSE IF Len(self.game_features) = 0
                \/ Len(self.game_features[1]) # Len(ex.matrix[1])
        THEN [self |-> restored, error |-> "IncompatibleDimension",
              recommendations |-> <<>>, similarities |-> <<>>]
        ELSE [self |-> restored, error |-> ranked.loop.error,
              recommendations |-> ranked.loop.recommendations,
              similarities |-> ranked.similarities]

\* get_similar_games_by_text(query_text, top_k): [self, error, recommendations,
\* similarities], similarities the query's score against each corpus record
get_similar_games_by_text(self, query_text, top_k) ==
    IF ~self.is_trained
    THEN [self |-> self, error |-> "NotTrained", recommendations |-> <<>>,
          similarities |-> <<>>]
    ELSE TextExtracted(self, self.feature_extractor.is_fitted,
                       extract_all_features(
                           [self.feature_extractor EXCEPT !.is_fitted = TRUE],
                           <<DummyGame(query_text)>>),
                       top_k)

----------------------------------------------------------------------------
(* Persistence.  A path is a sequence of units; ".pkl" is one unit. *)

Paths == {<<"model", ".pkl">>, <<"model">>}

\* filepath.replace(".pkl", "_feature_extractor.pkl")
FeatureExtractorPath(filepath) ==
    [i \in 1..Len(filepath) |->
        IF filepath[i] = ".pkl" THEN "_feature_extractor.pkl" ELSE filepath[i]]

AllPaths == Paths \cup {FeatureExtractorPath(p) : p \in Paths}

NoFile == [kind |-> "none"]

\* the dictionary save_model of the model pickles
ModelData(self) ==
    [kind              |-> "model",
     games_data        |-> self.games_data,
     game_features     |-> self.game_features,
     similarity_matrix |-> self.similarity_matrix,
     is_trained        |-> self.is_trained]

\* the dictionary save_model of the extractor pickles
ExtractorData(fx) == [kind |-> "extractor", fx |-> fx]

\* save_model(filepath): the files afterwards; the extractor is written first
save_model(self, fs, filepath) ==
    LET fs1 == [fs EXCEPT ![FeatureExtractorPath(filepath)] =
                              ExtractorData(self.feature_extractor)]
    IN  [fs1 EXCEPT ![filepath] = ModelData(self)]

\* GameFeatureExtractor.load_model(filepath): [error, fx]
LoadExtractor(fx, fs, filepath) ==
    LET data == fs[filepath]
    IN  IF data.kind = "none" THEN [error |-> "FileNotFoundError", fx |-> fx]
        ELSE IF data.kind = "model"
        THEN [error |-> "KeyError", fx |-> [fx EXCEPT !.config = "model_config"]]
        ELSE [error |-> "none", fx |-> data.fx]

\* load_model(filepath): [self, error]; the model's fields are assigned before
\* the extractor's file is opened
load_model(self, fs, filepath) ==
    LET data   == fs[filepath]
        loaded == [self EXCEPT !.games_data = data.games_data,
                               !.game_features = data.game_features,
                               !.similarity_matrix = data.similarity_matrix,
                               !.is_trained = data.is_trained]
        le     == LoadExtractor(self.feature_extractor, fs, FeatureExtractorPath(filepath))
    IN  IF data.kind = "none" THEN [self |-> self, error |-> "FileNotFoundError"]
        ELSE IF data.kind # "model" THEN [self |-> self, error |-> "KeyError"]
        ELSE [self |-> [loaded EXCEPT !.feature_extractor = le.fx], error |-> le.error]

----------------------------------------------------------------------------
(* DataTransformer (processing/data_transformer.py).  A dictionary is a    *)
(* function from its keys; a key that is not there is not in its DOMAIN.   *)
(* A value of a raw record, and an item of an id list, carries its Python  *)
(* type.  A raw rating is in units of 1/RatingScale; dates are in UTC.     *)

\* the values of a raw record
PyNone == [type |-> "none"]
PyInt(n) == [type |-> "int", value |-> n]
PyStr(text) == [type |-> "str", value |-> text]
PyList(items) == [type |-> "list", value |-> items]

\* marks, in the enumeration of raw records, a key the record does not have
Absent == [type |-> "absent"]

\* the one-key dictionary, or none when the key is not to be there
Field(key, value) == IF value = Absent THEN EmptyDict ELSE key :> value

\* value or default: the default for None and for a value that is false
OrElse(value, default) ==
    IF value.type = "none" \/ value.value = default THEN default ELSE value.value

\* a numeric value that may be None
Optional(value) == IF value.type = "none" THEN None ELSE value.value

\* str.strip()
RECURSIVE LStrip(_)
LStrip(text) ==
    IF Len(text) > 0 /\ Head(text) = Blank THEN LStrip(Tail(text)) ELSE text

RECURSIVE RStrip(_)
RStrip(text) ==
    IF Len(text) > 0 /\ text[Len(text)] = Blank
    THEN RStrip(SubSeq(text, 1, Len(text) - 1))
    ELSE text

Strip(text) == RStrip(LStrip(text))

genre_lookup ==
       (2 :> "Point-and-click")
    @@ (4 :> "Fighting")
    @@ (5 :> "Shooter")
    @@ (7 :> "Music")
    @@ (8 :> "Platform")
    @@ (9 :> "Puzzle")
    @@ (10 :> "Racing")
    @@ (11 :> "Real Time Strategy (RTS)")
    @@ (12 :> "Role-playing (RPG)")
    @@ (13 :> "Simulator")
    @@ (14 :> "Sport")
    @@ (15 :> "Strategy")
    @@ (16 :> "Turn-based strategy (TBS)")
    @@ (24 :> "Tactical")
    @@ (25 :> "Hack and slash/Beat 'em up")
    @@ (26 :> "Quiz/Trivia")
    @@ (30 :> "Pinball")
    @@ (31 :> "Adventure")
    @@ (32 :> "Indie")
    @@ (33 :> "Arcade")

platform_lookup ==
       (1 :> "Nintendo Entertainment System")
    @@ (2 :> "Super Nintendo Entertainment System")
    @@ (3 :> "Nintendo Game Boy")
    @@ (4 :> "Nintendo Game Boy Color")
    @@ (5 :> "Nintendo Game Boy Advance")
    @@ (6 :> "PC (Microsoft Windows)")
    @@ (7 :> "PlayStation")
    @@ (8 :> "PlayStation 2")
    @@ (9 :> "PlayStation 3")
    @@ (11 :> "Xbox")
    @@ (12 :> "Xbox 360")
    @@ (13 :> "Xbox One")
    @@ (14 :> "Sega Genesis")
    @@ (15 :> "Sega Saturn")
    @@ (16 :> "Sega Dreamcast")
    @@ (48 :> "PlayStation 4")
    @@ (49 :> "Xbox One")
    @@ (130 :> "Nintendo Switch")
    @@ (167 :> "PlayStation 5")
    @@ (169 :> "PlayStation 5")

theme_lookup ==
       (1 :> "Action")
    @@ (2 :> "Fantasy")
    @@ (3 :> "Science fiction")
    @@ (4 :> "Horror")
    @@ (5 :> "Thriller")
    @@ (6 :> "Survival")
    @@ (7 :> "Historical")
    @@ (8 :> "Stealth")
    @@ (9 :> "Comedy")
    @@ (10 :> "Business")
    @@ (11 :> "Drama")
    @@ (12 :> "Non-fiction")
    @@ (13 :> "Sandbox")
    @@ (14 :> "Educational")
    @@ (15 :> "Kids")
    @@ (16 :> "Party")
    @@ (17 :> "Fighting")
    @@ (18 :> "Action-adventure")
    @@ (19 :> "Massively Multiplayer Online (MMO)")
    @@ (20 :> "Racing")
    @@ (21 :> "Sports")
    @@ (22 :> "Simulation")
    @@ (23 :> "Strategy")
    @@ (24 :> "Turn-based strategy")
    @@ (25 :> "Real-time strategy")
    @@ (26 :> "Tactical")
    @@ (27 :> "Shooter")
    @@ (28 :> "Puzzle")
    @@ (29 :> "Music")
    @@ (30 :> "Party")
    @@ (31 :> "Platform")
    @@ (32 :> "Adventure")
    @@ (33 :> "Indie")
    @@ (34 :> "Arcade")
    @@ (35 :> "Visual Novel")
    @@ (36 :> "Card & Board Game")
    @@ (37 :> "MOBA")
    @@ (38 :> "Battle Royale")

RatingScale == 100

\* _clean_rating: round(float(rating), 1), halves to even
_clean_rating(rating) ==
    IF rating.type = "none" THEN None
    ELSE LET tenths == rating.value \div 10
             rest   == rating.value % 10
         IN  IF rest > 5 \/ (rest = 5 /\ tenths % 2 = 1)
             THEN (tenths + 1) * 10
             ELSE tenths * 10

SecondsPerDay == 86400

\* the civil date <<year, month, day>> of a day count since 1970-01-01
CivilFromDays(days) ==
    LET z   == days + 719468
        era == z \div 146097
        doe == z - era * 146097
        yoe == (doe - doe \div 1460 + doe \div 36524 - doe \div 146096) \div 365
        doy == doe - (365 * yoe + yoe \div 4 - yoe \div 100)
        mp  == (5 * doy + 2) \div 153
        d   == doy - (153 * mp + 2) \div 5 + 1
        m   == IF mp < 10 THEN mp + 3 ELSE mp - 9
        y   == yoe + era * 400
    IN  <<IF m <= 2 THEN y + 1 ELSE y, m, d>>

\* None for a date
NoDate == <<>>

\* _clean_release_date: the date as year, month, day
_clean_release_date(timestamp) ==
    IF timestamp.type = "none" THEN NoDate
    ELSE IF timestamp.value <= 0 THEN NoDate
    ELSE CivilFromDays(timestamp.value \div SecondsPerDay)

\* _extract_year
_extract_year(timestamp) ==
    IF timestamp.type = "none" THEN None
    ELSE IF timestamp.value <= 0 THEN None
    ELSE CivilFromDays(timestamp.value \div SecondsPerDay)[1]

\* one item of an id list resolved against a lookup table
Resolve(lookup, unknown, item) ==
    IF item.type = "int"
    THEN IF item.value \in DOMAIN lookup THEN lookup[item.value]
         ELSE <<unknown, item.value>>
    ELSE IF item.type = "dict" /\ "id" \in DOMAIN item.value
    THEN IF item.value.id \in DOMAIN lookup THEN lookup[item.value.id]
         ELSE <<unknown, item.value.id>>
    ELSE <<unknown, item.value>>

_resolve_genres(genre_ids) ==
    [i \in 1..Len(genre_ids) |-> Resolve(genre_lookup, "Unknown Genre", genre_ids[i])]

_resolve_platforms(platform_ids) ==
    [i \in 1..Len(platform_ids) |->
        Resolve(platform_lookup, "Unknown Platform", platform_ids[i])]

_resolve_themes(theme_ids) ==
    [i \in 1..Len(theme_ids) |-> Resolve(theme_lookup, "Unknown Theme", theme_ids[i])]

\* the has_summary flag: bool(clean_game["summary"])
HasSummary(raw_game, summary) == Len(summary) > 0

\* transform_game once the cleaned scalar fields and the id lists are there
Transformed(raw_game, name, summary, rating, genres, platforms, themes) ==
    [id             |-> Optional(Get(raw_game, "id", PyNone)),
     name           |-> name,
     summary        |-> summary,
     rating         |-> rating,
     rating_count   |-> OrElse(Get(raw_game, "rating_count", PyNone), 0),
     release_date   |-> _clean_release_date(Get(raw_game, "first_release_date", PyNone)),
     release_year   |-> _extract_year(Get(raw_game, "first_release_date", PyNone)),
     genre_names    |-> _resolve_genres(genres),
     platform_names |-> _resolve_platforms(platforms),
     theme_names    |-> _resolve_themes(themes),
     genre_ids      |-> genres,
     platform_ids   |-> platforms,
     theme_ids      |-> themes,
     summary_length |-> Len(summary),
     name_length    |-> Len(name),
     has_summary    |-> HasSummary(raw_game, summary),
     has_rating     |-> rating # None,
     has_genres     |-> Len(genres) > 0,
     has_platforms  |-> Len(platforms) > 0]

\* transform_game: the clean record, or the empty dictionary when a step of
\* the transformation raises (an id list that is None cannot be iterated)
transform_game(raw_game) ==
    IF \E key \in {"genres", "platforms", "themes"} :
           Get(raw_game, key, PyList(<<>>)).type = "none"
    THEN EmptyDict
    ELSE Transformed(raw_game,
                     Strip(OrElse(Get(raw_game, "name", PyNone), <<>>)),
                     Strip(OrElse(Get(raw_game, "summary", PyNone), <<>>)),
                     _clean_rating(Get(raw_game, "rating", PyNone)),
                     Get(raw_game, "genres", PyList(<<>>)).value,
                     Get(raw_game, "platforms", PyList(<<>>)).value,
                     Get(raw_game, "themes", PyList(<<>>)).value)

\* transform_batch: the clean records that are not empty and have an id
RECURSIVE TransformLoop(_, _)
TransformLoop(raw_games, clean_games) ==
    IF Len(raw_games) = 0 THEN clean_games
    ELSE LET clean_game == transform_game(Head(raw_games))
         IN  TransformLoop(Tail(raw_games),
                           IF clean_game # EmptyDict /\ Get(clean_game, "id", None) # None
                           THEN Append(clean_games, clean_game)
                           ELSE clean_games)

transform_batch(raw_games) == TransformLoop(raw_games, <<>>)

\* the items of the id lists and the raw records handed to the transformer
IntItem(n) == [type |-> "int", value |-> n]
DictItem(n) == [type |-> "dict", value |-> [id |-> n]]

RawGames ==
    { Field("id", id) @@ Field("name", name) @@ Field("summary", summary)
          @@ Field("rating", rating) @@ Field("rating_count", rating_count)
          @@ Field("first_release_date", first_release_date)
          @@ Field("genres", genres) @@ Field("platforms", platforms)
          @@ Field("themes", themes) :
        id \in {Absent, PyInt(11111)},
        name \in {PyNone, PyStr(<<Blank, "Game", Blank>>)},
        summary \in {Absent, PyNone, PyStr(<<Blank, Blank>>),
                     PyStr(<<"A", Blank, "game", Blank>>)},
        rating \in {Absent, PyNone, PyInt(0), PyInt(7812)},
        rating_count \in {Absent, PyNone, PyInt(5)},
        first_release_date \in {Absent, PyInt(0), PyInt(1609459200)},
        genres \in {Absent, PyNone, PyList(<<>>),
                    PyList(<<IntItem(9), DictItem(31), IntItem(999)>>)},
        platforms \in {Absent, PyList(<<>>), PyList(<<IntItem(6)>>)},
        themes \in {Absent, PyList(<<[type |-> "str", value |-> "x"]>>)} }

\* the scenario record: no rating, no summary, an empty genre list
IncompleteRawGame ==
    ("id" :> PyInt(11111)) @@ ("name" :> PyStr(<<"Incomplete", Blank, "Game">>))
        @@ ("summary" :> PyNone) @@ ("rating" :> PyNone) @@ ("genres" :> PyList(<<>>))

\* the batches handed to transform_batch
RawBatches ==
    { <<>>,
      <<IncompleteRawGame>>,
      <<("id" :> PyInt(1)) @@ ("summary" :> PyStr(<<"game">>))
            @@ ("genres" :> PyList(<<IntItem(9)>>)),
        ("summary" :> PyStr(<<"game">>)) @@ ("genres" :> PyList(<<IntItem(9)>>)),
        ("id" :> PyInt(3)) @@ ("genres" :> PyNone),
        IncompleteRawGame>> }

----------------------------------------------------------------------------
(* The state machine: one caller, one call at a time.  A call is atomic;  *)
(* its outcome stays in ret until the caller takes it (Return).            *)

MaxFiles == 1

GameIds == 0..(MaxGames + 1)
\* the values of top_k asked for: the small ones, and one above every corpus size
TopKs == (0..MaxTopK) \cup {MaxGames}
QueryTexts == {<<"adventure", Blank, "puzzle", Blank, "game">>, <<"zzz">>, <<>>}

\* the test lists of evaluate_model: games of the corpora and one of none
TestSets ==
    { <<>>,
      <<BaseGame(1)>>,
      <<BaseGame(MaxGames + 1)>>,
      <<BaseGame(MaxGames + 1), BaseGame(1), BaseGame(MinTrainingGames)>> }

NoCall == [op |-> "none"]

\* the database after create_tables
EmptyDb == [games |-> EmptyDict, ingestion_log |-> EmptyDict]

\* the threads that query one model instance, and a thread that runs no query
Threads == {1, 2}
Idle == [pc |-> "idle"]

\* no _make_request call in progress
NoRequest ==
    [pc |-> "idle", max_retries |-> 0, attempt |-> 0, responses |-> <<>>,
     outcome |-> "none", result |-> <<>>]

Init ==
    /\ games_data = <<>>
    /\ game_features = <<>>
    /\ similarity_matrix = <<>>
    /\ is_trained = FALSE
    /\ feature_extractor = NewExtractor
    /\ files = [p \in AllPaths |-> NoFile]
    /\ ret = NoCall
    /\ ever_trained = FALSE
    /\ db = EmptyDb
    /\ threads = [t \in Threads |-> Idle]
    /\ http = NoRequest

Assign(self) ==
    /\ games_data' = self.games_data
    /\ game_features' = self.game_features
    /\ similarity_matrix' = self.similarity_matrix
    /\ is_trained' = self.is_trained
    /\ feature_extractor' = self.feature_extractor

TrainOn(corpora) ==
    /\ ret = NoCall
    /\ UNCHANGED pipeline_vars
    /\ \E games \in corpora :
        \E r \in {train(Self, games)} :
            /\ Assign(r.self)
            /\ ret' = [op |-> "train", games |-> games, error |-> r.error,
                       training_samples |-> r.training_samples,
                       feature_count |-> r.feature_count, metrics |-> r.metrics]
            /\ ever_trained' = (ever_trained \/ r.error = "none")
            /\ UNCHANGED files

Train == TrainOn(Corpora)

TrainPersist == TrainOn(PersistCorpora)

GetRecommendations ==
    /\ ret = NoCall
    /\ UNCHANGED pipeline_vars
    /\ \E game_id \in GameIds, top_k \in TopKs, exclude_played \in BOOLEAN :
        \E r \in {get_recommendations(Self, game_id, top_k, exclude_played)} :
            /\ ret' = [op |-> "get_recommendations", game_id |-> game_id,
                       top_k |-> top_k, exclude_played |-> exclude_played,
                       error |-> r.error, recommendations |-> r.recommendations]
            /\ UNCHANGED <<games_data, game_features, similarity_matrix, is_trained,
                           feature_extractor, files, ever_trained>>

EvaluateModel ==
    /\ ret = NoCall
    /\ UNCHANGED pipeline_vars
    /\ \E test_games \in TestSets :
        \E r \in {evaluate_model(Self, test_games)} :
            /\ ret' = [op |-> "evaluate_model", test_games |-> test_games,
                       error |-> r.error, results |-> r.results]
            /\ UNCHANGED <<games_data, game_features, similarity_matrix, is_trained,
                           feature_extractor, files, ever_trained>>

TransformGame ==
    /\ ret = NoCall
    /\ UNCHANGED pipeline_vars
    /\ \E raw_game \in RawGames :
        /\ ret' = [op |-> "transform_game", raw_game |-> raw_game,
                   clean_game |-> transform_game(raw_game)]
        /\ UNCHANGED <<games_data, game_features, similarity_matrix, is_trained,
                       feature_extractor, files, ever_trained>>

TransformBatch ==
    /\ ret = NoCall
    /\ UNCHANGED pipeline_vars
    /\ \E raw_games \in RawBatches :
        /\ ret' = [op |-> "transform_batch", raw_games |-> raw_games,
                   clean_games |-> transform_batch(raw_games)]
        /\ UNCHANGED <<games_data, game_features, similarity_matrix, is_trained,
                       feature_extractor, files, ever_trained>>

GetSimilarGamesByText ==
    /\ ret = NoCall
    /\ UNCHANGED pipeline_vars
    /\ \E query_text \in QueryTexts, top_k \in TopKs :
        \E r \in {get_similar_games_by_text(Self, query_text, top_k)} :
            /\ Assign(r.self)
            /\ ret' = [op |-> "get_similar_games_by_text", query_text |-> query_text,
                       top_k |-> top_k, error |-> r.error,
                       recommendations |-> r.recommendations,
                       similarities |-> r.similarities]
            /\ UNCHANGED <<files, ever_trained>>

SaveModel ==
    /\ ret = NoCall
    /\ UNCHANGED pipeline_vars
    /\ Cardinality({p \in AllPaths : files[p].kind # "none"}) < MaxFiles
    /\ \E filepath \in Paths :
        /\ files' = save_model(Self, files, filepath)
        /\ ret' = [op |-> "save_model", filepath |-> filepath, error |-> "none"]
        /\ UNCHANGED <<games_data, game_features, similarity_matrix, is_trained,
                       feature_extractor, ever_trained>>

LoadModel ==
    /\ ret = NoCall
    /\ UNCHANGED pipeline_vars
    /\ \E filepath \in Paths :
        \E r \in {load_model(Self, files, filepath)} :
            /\ Assign(r.self)
            /\ ret' = [op |-> "load_model", filepath |-> filepath, error |-> r.error]
            /\ ever_trained' = (ever_trained \/ (files[filepath].kind = "model"
                                                  /\ files[filepath].is_trained))
            /\ UNCHANGED files

\* ContentBasedRecommendationModel(): the caller goes on with a new instance;
\* the files stay
NewModel ==
    /\ ret = NoCall
    /\ UNCHANGED pipeline_vars
    /\ Self # [games_data |-> <<>>, game_features |-> <<>>, similarity_matrix |-> <<>>,
                is_trained |-> FALSE, feature_extractor |-> NewExtractor]
    /\ games_data' = <<>>
    /\ game_features' = <<>>
    /\ similarity_matrix' = <<>>
    /\ is_trained' = FALSE
    /\ feature_extractor' = NewExtractor
    /\ ever_trained' = FALSE
    /\ UNCHANGED <<files, ret>>

\* the caller takes the outcome of its call and is free to call again
Return ==
    /\ ret # NoCall
    /\ ret' = NoCall
    /\ UNCHANGED pipeline_vars
    /\ UNCHANGED <<games_data, game_features, similarity_matrix, is_trained,
                   feature_extractor, files, ever_trained>>

\* training and querying one instance
Next ==
    \/ Train
    \/ GetRecommendations
    \/ GetSimilarGamesByText
    \/ EvaluateModel
    \/ Return

Spec == Init /\ [][Next]_vars

\* the transformer called on raw records
NextTransform ==
    \/ TransformGame
    \/ TransformBatch
    \/ Return

SpecTransform == Init /\ [][NextTransform]_vars

\* training, querying, saving and loading, in one instance or the next
NextPersist ==
    \/ TrainPersist
    \/ GetRecommendations
    \/ GetSimilarGamesByText
    \/ SaveModel
    \/ LoadModel
    \/ NewModel
    \/ Return

SpecPersist == Init /\ [][NextPersist]_vars

----------------------------------------------------------------------------
(* Concurrent queries.  Threads call get_recommendations and              *)
(* get_similar_games_by_text on the one model instance; a step of a thread *)
(* is a stretch of the method between two accesses to the shared instance. *)
(* The instance is trained, saved, loaded and replaced only while no query  *)
(* is running.                                                             *)

ConcurrentCorpora == {Corpus(MinTrainingGames, "none", FALSE)}
ConcurrentGameIds == {1, MaxGames + 1}
ConcurrentTexts == {<<"adventure", Blank, "puzzle", Blank, "game">>, <<>>}

Quiet == \A t \in Threads : threads[t] = Idle

Other(t) == CHOOSE u \in Threads : u # t

IsQuery(thread, op) == thread # Idle /\ thread.op = op

\* a thread enters get_recommendations
StartRecommendations(t) ==
    /\ ret = NoCall
    /\ threads[t] = Idle
    /\ \E game_id \in ConcurrentGameIds, exclude_played \in BOOLEAN :
        threads' = [threads EXCEPT ![t] =
            [pc |-> "lookup", op |-> "get_recommendations", game_id |-> game_id,
             top_k |-> MaxTopK, exclude_played |-> exclude_played,
             game_idx |-> 0, similar_indices |-> <<>>, result |-> NoRecommendations("none")]]
    /\ UNCHANGED <<model_vars, ret, db, http>>

\* the trained check and the search for the game
Lookup(t) ==
    /\ threads[t].pc = "lookup"
    /\ \E game_idx \in {FindGameIndex(games_data, threads[t].game_id)} :
        threads' = [threads EXCEPT ![t] =
            IF ~is_trained
            THEN [@ EXCEPT !.pc = "done", !.result = NoRecommendations("NotTrained")]
            ELSE IF game_idx = 0
            THEN [@ EXCEPT !.pc = "done", !.result = NoRecommendations("NotFound")]
            ELSE [@ EXCEPT !.pc = "rank", !.game_idx = game_idx]]
    /\ UNCHANGED <<model_vars, ret, db, http>>

\* the row of the game is taken and ranked
RankRow(t) ==
    /\ threads[t].pc = "rank"
    /\ LET game_idx == threads[t].game_idx
       IN  IF game_idx > Len(similarity_matrix)
           THEN /\ threads' = [threads EXCEPT ![t] =
                       [@ EXCEPT !.pc = "done",
                                 !.result = NoRecommendations("IndexError")]]
                /\ UNCHANGED similarity_matrix
           ELSE /\ threads' = [threads EXCEPT ![t] =
                       [@ EXCEPT !.pc = "loop",
                                 !.similar_indices =
                                     ArgsortDescending(similarity_matrix[game_idx])]]
                /\ similarity_matrix' =
                       [similarity_matrix EXCEPT
                           ![game_idx] = RowAfterRanking(similarity_matrix[game_idx])]
    /\ UNCHANGED <<games_data, game_features, is_trained, feature_extractor, files,
                   ever_trained, ret, db, http>>

\* the loop over the ranking
LoopRanking(t) ==
    /\ threads[t].pc = "loop"
    /\ \E r \in {RecommendLoop(Self, threads[t].similar_indices, 1, threads[t].game_idx,
                               threads[t].top_k, threads[t].exclude_played, <<>>)} :
        threads' = [threads EXCEPT ![t] = [@ EXCEPT !.pc = "done", !.result = r]]
    /\ UNCHANGED <<model_vars, ret, db, http>>

\* a thread enters get_similar_games_by_text; first: no other text query is
\* running; alone: none has run since; before: the flag at this moment;
\* extracted_fitted: the flag that the extraction of this call found
StartText(t) ==
    /\ ret = NoCall
    /\ threads[t] = Idle
    /\ \E query_text \in ConcurrentTexts :
        threads' = [threads EXCEPT
            ![t] = [pc |-> "save", op |-> "get_similar_games_by_text",
                    query_text |-> query_text, top_k |-> MaxTopK,
                    original_is_fitted |-> FALSE, result |-> NoRecommendations("none"),
                    before |-> feature_extractor.is_fitted,
                    first |-> ~IsQuery(threads[Other(t)], "get_similar_games_by_text"),
                    alone |-> ~IsQuery(threads[Other(t)], "get_similar_games_by_text"),
                    extracted_fitted |-> TRUE],
            ![Other(t)] = IF IsQuery(@, "get_similar_games_by_text")
                          THEN [@ EXCEPT !.alone = FALSE] ELSE @]
    /\ UNCHANGED <<model_vars, ret, db, http>>

\* the trained check, then original_is_fitted = self.feature_extractor.is_fitted
SaveFlag(t) ==
    /\ threads[t].pc = "save"
    /\ threads' = [threads EXCEPT ![t] =
           IF ~is_trained
           THEN [@ EXCEPT !.pc = "done", !.result = NoRecommendations("NotTrained")]
           ELSE [@ EXCEPT !.pc = "force",
                          !.original_is_fitted = feature_extractor.is_fitted]]
    /\ UNCHANGED <<model_vars, ret, db, http>>

\* self.feature_extractor.is_fitted = True
ForceFlag(t) ==
    /\ threads[t].pc = "force"
    /\ feature_extractor' = [feature_extractor EXCEPT !.is_fitted = TRUE]
    /\ threads' = [threads EXCEPT ![t].pc = "extract"]
    /\ UNCHANGED <<games_data, game_features, similarity_matrix, is_trained, files,
                   ever_trained, ret, db, http>>

\* extract_all_features on the query and the ranking of the corpus against it
Extract(t) ==
    /\ threads[t].pc = "extract"
    /\ \E ex \in {extract_all_features(feature_extractor,
                                       <<DummyGame(threads[t].query_text)>>)} :
        \E r \in {TextExtracted(Self, threads[t].original_is_fitted, ex,
                                threads[t].top_k)} :
            /\ feature_extractor' = ex.fx
            /\ threads' = [threads EXCEPT ![t] =
                   [@ EXCEPT !.pc = "restore",
                             !.extracted_fitted = feature_extractor.is_fitted,
                             !.result = [error |-> r.error,
                                         recommendations |-> r.recommendations]]]
    /\ UNCHANGED <<games_data, game_features, similarity_matrix, is_trained, files,
                   ever_trained, ret, db, http>>

\* finally: self.feature_extractor.is_fitted = original_is_fitted
RestoreFlag(t) ==
    /\ threads[t].pc = "restore"
    /\ feature_extractor' = RestoreFitted(feature_extractor, threads[t].original_is_fitted)
    /\ threads' = [threads EXCEPT ![t].pc = "done"]
    /\ UNCHANGED <<games_data, game_features, similarity_matrix, is_trained, files,
                   ever_trained, ret, db, http>>

\* the query has come back and its thread is free again
Finish(t) ==
    /\ threads[t] # Idle
    /\ threads[t].pc = "done"
    /\ threads' = [threads EXCEPT ![t] = Idle]
    /\ UNCHANGED <<model_vars, ret, db, http>>

NextConcurrent ==
    \/ Quiet /\ TrainOn(ConcurrentCorpora)
    \/ Quiet /\ SaveModel
    \/ Quiet /\ LoadModel
    \/ Quiet /\ NewModel
    \/ Return
    \/ \E t \in Threads : StartRecommendations(t)
    \/ \E t \in Threads : Lookup(t)
    \/ \E t \in Threads : RankRow(t)
    \/ \E t \in Threads : LoopRanking(t)
    \/ \E t \in Threads : StartText(t)
    \/ \E t \in Threads : SaveFlag(t)
    \/ \E t \in Threads : ForceFlag(t)
    \/ \E t \in Threads : Extract(t)
    \/ \E t \in Threads : RestoreFlag(t)
    \/ \E t \in Threads : Finish(t)

SpecConcurrent == Init /\ [][NextConcurrent]_vars

----------------------------------------------------------------------------
(* DataManager: the games table, keyed by id, and the ingestion log, keyed *)
(* by batch_id.  A row of games keeps the id and the name of the record;   *)
(* the other columns are copied from the record as the name is.            *)

\* if not game.get("id"): the id is missing, None or 0
HasNoId(value) == value.type = "none" \/ (value.type = "int" /\ value.value = 0)

_prepare_game_data(game) ==
    [id |-> Get(game, "id", PyNone), name |-> Get(game, "name", PyStr(<<>>))]

\* INSERT OR REPLACE INTO games: the row takes the place of the row of its id
Upsert(table, key, row) == (key :> row) @@ table

\* the loop of save_games; name is NOT NULL, so a row whose name is None
\* fails the insert and the rows written so far are rolled back
RECURSIVE SaveLoop(_, _, _, _, _)
SaveLoop(db0, table, games, i, saved_count) ==
    IF i > Len(games)
    THEN [db |-> [db0 EXCEPT !.games = table], error |-> "none",
          saved_count |-> saved_count]
    ELSE IF HasNoId(Get(games[i], "id", PyNone))
    THEN SaveLoop(db0, table, games, i + 1, saved_count)
    ELSE LET game_data == _prepare_game_data(games[i])
         IN  IF game_data.name.type = "none"
             THEN [db |-> db0, error |-> "IntegrityError", saved_count |-> 0]
             ELSE SaveLoop(db0, Upsert(table, game_data.id.value, game_data), games,
                           i + 1, saved_count + 1)

save_games(database, games) ==
    IF Len(games) = 0
    THEN [db |-> database, error |-> "none", saved_count |-> 0]
    ELSE SaveLoop(database, database.games, games, 1, 0)

count_games(database) == Cardinality(DOMAIN database.games)

\* fault variant: a second row of a batch does not take the place of the first
LogKeepsFirst(log, batch_id, row) == log @@ (batch_id :> row)

\* INSERT OR REPLACE INTO ingestion_log, batch_id being UNIQUE
LogRow(log, batch_id, row) == (batch_id :> row) @@ log

log_ingestion(database, batch_id, games_fetched, games_new, games_updated, status, error_message) ==
    [database EXCEPT !.ingestion_log =
        LogRow(@, batch_id,
               [games_fetched |-> games_fetched, games_new |-> games_new,
                games_updated |-> games_updated, completed_at |-> status = "completed",
                status |-> status, error_message |-> error_message])]

\* the batches counted by get_ingestion_stats
get_ingestion_stats(database) ==
    [total_batches |->
         Cardinality({b \in DOMAIN database.ingestion_log :
                          database.ingestion_log[b].status = "completed"}),
     current_games |-> count_games(database)]

StoreRecords ==
    { Field("id", id) @@ Field("name", name) :
        id \in {Absent, PyNone, PyInt(0), PyInt(1), PyInt(2)},
        name \in {Absent, PyNone, PyStr(<<"A">>), PyStr(<<"B">>)} }

\* the batches handed to save_games
GameBatches ==
    {<<>>} \cup {<<g>> : g \in StoreRecords}
           \cup {<<g, h>> : g \in StoreRecords, h \in StoreRecords}

SaveGames ==
    /\ ret = NoCall
    /\ UNCHANGED <<model_vars, threads, http>>
    /\ \E games \in GameBatches :
        \E r \in {save_games(db, games)} :
            /\ db' = r.db
            /\ ret' = [op |-> "save_games", games |-> games, error |-> r.error,
                       saved_count |-> r.saved_count]

----------------------------------------------------------------------------
(* SmartIngestion.fetch_if_needed over the store and the upstream client.  *)

\* the batch ids, each made of the time and a fresh uuid
BatchIds == <<"batch_1", "batch_2", "batch_3">>

MaxTarget == 3

\* fault variant: the whole target is asked for
NeededWhole(target_count, current_count) == target_count

Needed(target_count, current_count) == target_count - current_count

\* what fetch_games_sample may do: raise, or return a list of records
UpstreamResponses ==
    {[raises |-> TRUE, games |-> <<>>]}
        \cup {[raises |-> FALSE, games |-> games] :
                games \in { <<>>,
                            <<("id" :> PyInt(1)) @@ ("name" :> PyStr(<<"A">>))>>,
                            <<("id" :> PyInt(2)) @@ ("name" :> PyStr(<<"B">>)),
                              ("id" :> PyInt(3)) @@ ("name" :> PyStr(<<"A">>))>>,
                            <<("id" :> PyInt(1)) @@ ("name" :> PyStr(<<"B">>)),
                              ("id" :> PyInt(4)) @@ ("name" :> PyStr(<<"B">>)),
                              ("id" :> PyInt(4)) @@ ("name" :> PyStr(<<"A">>))>>,
                            <<("id" :> PyInt(5)) @@ ("name" :> PyStr(<<"A">>)),
                              ("id" :> PyInt(6)) @@ ("name" :> PyNone)>> }}

\* the except branch: the batch is logged as failed and the exception goes on
Failed(database, current_count, batch_id, requests, error) ==
    [db |-> log_ingestion(database, batch_id, 0, 0, 0, "error", error),
     error |-> error, result |-> current_count, requests |-> requests,
     batch_id |-> batch_id]

\* the call from the answer of the upstream client on
Fetched(started, current_count, batch_id, requests, upstream, saved) ==
    IF upstream.raises
    THEN Failed(started, current_count, batch_id, requests, "UpstreamError")
    ELSE IF Len(upstream.games) = 0
    THEN [db |-> log_ingestion(started, batch_id, 0, 0, 0, "error",
                               "No games fetched from IGDB"),
          error |-> "none", result |-> current_count, requests |-> requests,
          batch_id |-> batch_id]
    ELSE IF saved.error # "none"
    THEN Failed(saved.db, current_count, batch_id, requests, saved.error)
    ELSE [db |-> log_ingestion(saved.db, batch_id, Len(upstream.games),
                               saved.saved_count, 0, "completed", "none"),
          error |-> "none", result |-> count_games(saved.db), requests |-> requests,
          batch_id |-> batch_id]

fetch_if_needed(database, target_count, batch_id, upstream) ==
    LET current_count == count_games(database)
        started == log_ingestion(database, batch_id, 0, 0, 0, "started", "none")
    IN  IF current_count >= target_count
        THEN [db |-> database, error |-> "none", result |-> current_count,
              requests |-> <<>>, batch_id |-> "none"]
        ELSE Fetched(started, current_count, batch_id,
                     <<Needed(target_count, current_count)>>, upstream,
                     save_games(started, upstream.games))

FetchIfNeeded ==
    /\ ret = NoCall
    /\ Cardinality(DOMAIN db.ingestion_log) < Len(BatchIds)
    /\ UNCHANGED <<model_vars, threads, http>>
    /\ \E target_count \in 0..MaxTarget, upstream \in UpstreamResponses :
        \E r \in {fetch_if_needed(db, target_count,
                                  BatchIds[Cardinality(DOMAIN db.ingestion_log) + 1],
                                  upstream)} :
            /\ db' = r.db
            /\ ret' = [op |-> "fetch_if_needed", target_count |-> target_count,
                       upstream |-> upstream, error |-> r.error, result |-> r.result,
                       requests |-> r.requests, batch_id |-> r.batch_id]

NextIngestion ==
    \/ SaveGames
    \/ FetchIfNeeded
    \/ Return

SpecIngestion == Init /\ [][NextIngestion]_vars

----------------------------------------------------------------------------
(* IGDBDataIngestion._make_request: the retry loop over requests.post.  A  *)
(* step is one pass of the loop, with the answer of the server as input;   *)
(* responses is the list of the answers the call has had.                  *)

\* the default of max_retries, and the largest value the calls are made with
MaxRetries == 3

\* the answers to one requests.post: a 200 with a JSON list, a 200 whose body
\* is not JSON, a 429 with or without an integer Retry-After, a 429 whose
\* Retry-After is not an integer, a timeout, and a failed request or an HTTP
\* error status
Responses ==
    {[kind |-> "ok", body |-> body] : body \in {<<>>, <<7>>}}
        \cup {[kind |-> kind, body |-> <<>>] :
                kind \in {"undecodable", "rate_limited", "rate_limited_no_int",
                          "timeout", "error"}}

\* the classes of the exception that the pass raises on the answer:
\* requests' JSONDecodeError is a RequestException and a json.JSONDecodeError
Raised(response) ==
    CASE response.kind = "timeout" -> {"Timeout", "RequestException"}
      [] response.kind = "error" -> {"RequestException"}
      [] response.kind = "undecodable" ->
             {"RequestException", "JSONDecodeError", "ValueError"}
      [] response.kind = "rate_limited_no_int" -> {"ValueError"}
      [] OTHER -> {}

\* the except clauses of the loop in their order
ExceptClauses == <<"Timeout", "RequestException", "JSONDecodeError">>

\* the first clause that matches the exception, 0 when none does
Handler(classes) ==
    IF \E i \in 1..Len(ExceptClauses) : ExceptClauses[i] \in classes
    THEN CHOOSE i \in 1..Len(ExceptClauses) :
             /\ ExceptClauses[i] \in classes
             /\ \A j \in 1..(i - 1) : ExceptClauses[j] \notin classes
    ELSE 0

\* one pass of the loop on the answer
Pass(request, response) ==
    LET heard == [request EXCEPT !.responses = Append(@, response)]
        again == [heard EXCEPT !.attempt = @ + 1]
        clause == Handler(Raised(response))
    IN  IF response.kind = "rate_limited" THEN again
        ELSE IF response.kind = "ok"
        THEN [heard EXCEPT !.pc = "done", !.outcome = "returned",
                           !.result = response.body]
        ELSE IF clause = 0
        THEN [heard EXCEPT !.pc = "done", !.outcome = "ValueError"]
        ELSE IF ExceptClauses[clause] = "JSONDecodeError"
        THEN [heard EXCEPT !.pc = "done", !.outcome = "returned", !.result = <<>>]
        ELSE again

\* _make_request is called, the call before it being over
MakeRequest ==
    /\ ret = NoCall
    /\ http.pc \in {"idle", "done"}
    /\ \E max_retries \in 0..MaxRetries, authenticated \in BOOLEAN :
        http' = IF authenticated
                THEN [NoRequest EXCEPT !.pc = "request", !.max_retries = max_retries]
                ELSE [NoRequest EXCEPT !.pc = "done", !.max_retries = max_retries,
                                       !.outcome = "NotAuthenticated"]
    /\ UNCHANGED <<model_vars, ret, db, threads>>

\* for attempt in range(max_retries + 1): one request and its handling
Attempt ==
    /\ http.pc = "request"
    /\ http.attempt <= http.max_retries
    /\ \E response \in Responses : http' = Pass(http, response)
    /\ UNCHANGED <<model_vars, ret, db, threads>>

\* the loop has run out: return []
GiveUp ==
    /\ http.pc = "request"
    /\ http.attempt > http.max_retries
    /\ http' = [http EXCEPT !.pc = "done", !.outcome = "returned", !.result = <<>>]
    /\ UNCHANGED <<model_vars, ret, db, threads>>

NextRequest ==
    \/ MakeRequest
    \/ Attempt
    \/ GiveUp

\* every pass ends: requests.post has a timeout and the sleeps are finite
SpecRequestFair == Init /\ [][NextRequest]_vars /\ WF_vars(Attempt) /\ WF_vars(GiveUp)

----------------------------------------------------------------------------
(* Properties.  ret holds the last call and its outcome; a query leaves    *)
(* the corpus and the matrices as they were when it was made.              *)

\* the row of the target of the last get_recommendations call
TargetIndex == Min({i \in 1..Len(games_data) : games_data[i].id = ret.game_id})

\* the last call was a get_recommendations that returned a list
Recommended == ret.op = "get_recommendations" /\ ret.error = "none"

\* the spec's rule: the candidate at row i shares at least 80% of the
\* target's genres, counted against the target's genre count
Overlaps(i) ==
    LET target_genres == Range(games_data[TargetIndex].genre_names)
    IN  5 * Cardinality(target_genres \cap Range(games_data[i].genre_names))
            >= 4 * Cardinality(target_genres)

\* the rows whose record is among the returned entries
ReturnedRows ==
    {i \in 1..Len(games_data) :
        \E k \in 1..Len(ret.recommendations) :
            ret.recommendations[k].game_id = games_data[i].id}

\* the rows get_recommendations went past without returning them, the target
\* aside: those ranked no later than the last returned entry, or all the
\* others when the ranking was exhausted
SkippedRows ==
    LET order == ArgsortDescending(similarity_matrix[TargetIndex])
        rank  == [i \in 1..Len(order) |-> CHOOSE p \in 1..Len(order) : order[p] = i]
        exhausted == Len(ret.recommendations) = 0
                     \/ Len(ret.recommendations) < ret.top_k
    IN  {i \in (1..Len(order)) \ (ReturnedRows \cup {TargetIndex}) :
            exhausted \/ \E j \in ReturnedRows : rank[i] < rank[j]}

\* C1: while no train() has succeeded and no trained model has been loaded
\* (a failed train() included), get_recommendations and
\* get_similar_games_by_text raise the not-trained error for every argument
\* and return no list.
C1_UntrainedQueriesRaise ==
    (~ever_trained /\ ret.op \in {"get_recommendations", "get_similar_games_by_text"})
        => (ret.error = "NotTrained" /\ ret.recommendations = <<>>)

\* a text query refused on an instance whose only train() failed
C1_Witness ==
    /\ ~ever_trained
    /\ ret.op = "get_similar_games_by_text"
    /\ ret.error = "NotTrained"
    /\ Len(games_data) > 0

\* C2: train(records) raises the insufficient-data error exactly when fewer
\* than 10 records pass prepare_data; with 10 or more it succeeds, the model
\* is trained and training_samples is the number of eligible records.
C2_TrainSucceedsFromTen ==
    ret.op = "train" =>
        LET eligible == Len(prepare_data(ret.games))
        IN  /\ ret.error = "InsufficientData" <=> eligible < MinTrainingGames
            /\ eligible >= MinTrainingGames =>
                   /\ ret.error = "none"
                   /\ is_trained
                   /\ ret.training_samples = eligible

\* C3: on a trained model get_recommendations raises the not-found error for
\* every game id that no record of games_data carries, and for no id that
\* one carries.
C3_NotFoundIffAbsent ==
    (ret.op = "get_recommendations" /\ is_trained) =>
        (ret.error = "NotFound"
            <=> ~\E i \in 1..Len(games_data) : games_data[i].id = ret.game_id)

\* an id outside a trained corpus of at least 10 records is refused
C3_Witness ==
    /\ ret.op = "get_recommendations"
    /\ is_trained
    /\ Len(games_data) >= MinTrainingGames
    /\ ret.error = "NotFound"
    /\ ret.game_id > 0

\* C4: no entry returned by get_recommendations(G, ...) carries game id G,
\* whatever top_k and exclude_played are.
C4_SelfExclusion ==
    Recommended =>
        \A k \in 1..Len(ret.recommendations) :
            ret.recommendations[k].game_id # ret.game_id

\* every record but the game itself returned: the filter off, top_k above
\* the corpus size
C4_Witness ==
    /\ Recommended
    /\ ~ret.exclude_played
    /\ ret.top_k > Len(games_data)
    /\ Len(ret.recommendations) = Len(games_data) - 1

\* C5: prepare_data keeps exactly the records with has_summary, has_genres
\* and a summary that is not blank after trimming, in the order of the
\* input and unaltered: games_data after train(games) is games restricted
\* to the rows that meet the three conditions.
C5_PrepareDataFilters ==
    ret.op = "train" =>
        LET games == ret.games
            kept  == {i \in 1..Len(games) :
                        /\ games[i].has_summary
                        /\ games[i].has_genres
                        /\ \E u \in 1..Len(games[i].summary) :
                               games[i].summary[u] # Blank}
        IN  /\ prepare_data(games) = games_data
            /\ Len(games_data) = Cardinality(kept)
            /\ \A i \in kept :
                   games_data[Cardinality({j \in kept : j <= i})] = games[i]

\* a record with a blank summary was dropped and the rest trained on
C5_Witness ==
    /\ ret.op = "train"
    /\ ret.error = "none"
    /\ Len(games_data) < Len(ret.games)
    /\ \E i \in 1..Len(ret.games) :
           ret.games[i].has_summary /\ ~NonBlank(ret.games[i].summary)

\* C6: for a target with at least one genre and exclude_played true,
\* get_recommendations returns no candidate that shares at least 80% of the
\* target's genres, and every candidate it goes past without returning
\* shares that much; with exclude_played false it goes past no candidate.
C6_GenreOverlapExclusion ==
    Recommended =>
        /\ (ret.exclude_played /\ games_data[TargetIndex].genre_names # <<>>) =>
               /\ \A i \in ReturnedRows : ~Overlaps(i)
               /\ \A i \in SkippedRows : Overlaps(i)
        /\ ~ret.exclude_played => SkippedRows = {}

\* a candidate with exactly 4 of the target's 5 genres was passed over
C6_Witness ==
    /\ Recommended
    /\ ret.exclude_played
    /\ Len(ret.recommendations) > 0
    /\ \E i \in SkippedRows :
           5 * Cardinality(Range(games_data[TargetIndex].genre_names)
                           \cap Range(games_data[i].genre_names))
             = 4 * Cardinality(Range(games_data[TargetIndex].genre_names))

\* C7: for a target with no genre the genre filter excludes nothing: the
\* answer with exclude_played true is the answer with exclude_played false.
C7_ZeroGenreTargetKeepsAll ==
    (Recommended /\ ret.exclude_played
                 /\ games_data[TargetIndex].genre_names = <<>>) =>
        ret.recommendations =
            get_recommendations(Self, ret.game_id, ret.top_k, FALSE).recommendations

\* C8: get_recommendations and get_similar_games_by_text return at most
\* top_k entries for every top_k >= 0.
C8_AtMostTopK ==
    (ret.op \in {"get_recommendations", "get_similar_games_by_text"}
        /\ ret.error = "none") =>
        Len(ret.recommendations) <= ret.top_k

\* C9: for top_k >= 1 get_recommendations(G, top_k, exclude_played) returns
\* exactly min(top_k, M) entries, M the number of records other than G that
\* the genre rule does not exclude; on the 10-game corpus
\* get_recommendations(1, 2) returns 2 entries, neither of game 1.
C9_ExactlyMinOfTopKAndM ==
    (ret.op = "get_recommendations" /\ is_trained /\ ret.top_k >= 1
        /\ \E i \in 1..Len(games_data) : games_data[i].id = ret.game_id) =>
        LET ruled_out(i) == /\ ret.exclude_played
                            /\ games_data[TargetIndex].genre_names # <<>>
                            /\ Overlaps(i)
            M == Cardinality({i \in (1..Len(games_data)) \ {TargetIndex} :
                                 ~ruled_out(i)})
        IN  /\ ret.error = "none"
            /\ Len(ret.recommendations) = Min({ret.top_k, M})
            /\ (games_data = Corpus(MinTrainingGames, "none", FALSE)
                   /\ ret.game_id = 1 /\ ret.top_k = 2 /\ ret.exclude_played) =>
                   /\ Len(ret.recommendations) = 2
                   /\ \A k \in 1..2 : ret.recommendations[k].game_id # 1

\* C10: the entries of get_recommendations and of get_similar_games_by_text
\* come by non-increasing similarity_score, and no record that could have
\* been returned and was not has a higher score than a returned one.
C10_RankedByScore ==
    /\ (ret.op \in {"get_recommendations", "get_similar_games_by_text"}
           /\ ret.error = "none") =>
           \A k \in 1..(Len(ret.recommendations) - 1) :
               ret.recommendations[k].similarity_score
                   >= ret.recommendations[k + 1].similarity_score
    /\ Recommended =>
           \A i \in 1..Len(games_data) :
               (/\ i # TargetIndex
                /\ i \notin ReturnedRows
                /\ i <= Len(similarity_matrix[TargetIndex])
                /\ ~(ret.exclude_played
                       /\ _should_exclude_game(games_data[TargetIndex],
                                               games_data[i]))) =>
                   \A k \in 1..Len(ret.recommendations) :
                       similarity_matrix[TargetIndex][i]
                           <= ret.recommendations[k].similarity_score
    /\ (ret.op = "get_similar_games_by_text" /\ ret.error = "none") =>
           \A i \in 1..Len(games_data) :
               (/\ i <= Len(ret.similarities)
                /\ ~\E k \in 1..Len(ret.recommendations) :
                       ret.recommendations[k].game_id = games_data[i].id) =>
                   \A k \in 1..Len(ret.recommendations) :
                       ret.similarities[i] <= ret.recommendations[k].similarity_score

\* the spec's text query answered with two entries of different scores,
\* records of lower score left out
C10_Witness ==
    /\ ret.op = "get_similar_games_by_text"
    /\ ret.error = "none"
    /\ ret.query_text = <<"adventure", Blank, "puzzle", Blank, "game">>
    /\ ret.top_k = 2
    /\ Len(ret.recommendations) = 2
    /\ ret.recommendations[1].similarity_score > ret.recommendations[2].similarity_score
    /\ \E i \in 1..Len(ret.similarities) :
           ret.similarities[i] < ret.recommendations[2].similarity_score

\* the row of games_data behind the k-th returned entry
RowOfEntry(k) ==
    Min({i \in 1..Len(games_data) : games_data[i].id = ret.recommendations[k].game_id})

C12_TextQueryMutatesNothing ==
    [][(is_trained /\ ret'.op = "get_similar_games_by_text") =>
           /\ feature_extractor' = feature_extractor
           /\ games_data' = games_data
           /\ game_features' = game_features
           /\ similarity_matrix' = similarity_matrix
           /\ is_trained' = is_trained]_vars

\* a text query that raised on a trained model whose extractor is not
\* marked fitted, the flag false again afterwards
C12_Witness ==
    /\ ret.op = "get_similar_games_by_text"
    /\ is_trained
    /\ ret.error \notin {"none", "NotTrained"}
    /\ ~feature_extractor.is_fitted

\* C13: get_similar_games_by_text on a trained model has every record of
\* the corpus as a candidate: for top_k >= 1 it returns exactly
\* min(top_k, N) entries for a corpus of N records, each with the fields of
\* a get_recommendations entry.
C13_TextQueryReturnsMinOfTopKAndN ==
    (ret.op = "get_similar_games_by_text" /\ is_trained /\ ret.top_k >= 1) =>
        /\ ret.error = "none"
        /\ Len(ret.recommendations) = Min({ret.top_k, Len(games_data)})
        /\ \A k \in 1..Len(ret.recommendations) :
               DOMAIN ret.recommendations[k]
                   = {"game_id", "name", "similarity_score", "rating", "genres",
                      "platforms", "summary"}

\* the fields of a new instance
NewSelf ==
    [games_data |-> <<>>, game_features |-> <<>>, similarity_matrix |-> <<>>,
     is_trained |-> FALSE, feature_extractor |-> NewExtractor]

\* C14: for every save path, load_model into a new instance of what a
\* trained model saved succeeds and gives a trained model with the saved
\* games_data, feature matrix, similarity matrix and extractor fit state,
\* hence the same get_recommendations output for every game id.
C14_SaveLoadRoundTrip ==
    [][(/\ ret'.op = "load_model"
        /\ Self = NewSelf
        /\ files[ret'.filepath].kind = "model"
        /\ files[ret'.filepath].is_trained) =>
           /\ ret'.error = "none"
           /\ is_trained'
           /\ games_data' = files[ret'.filepath].games_data
           /\ game_features' = files[ret'.filepath].game_features
           /\ similarity_matrix' = files[ret'.filepath].similarity_matrix
           /\ feature_extractor' = files[FeatureExtractorPath(ret'.filepath)].fx
           /\ feature_extractor'.is_fitted]_vars

\* the three structures describe the same games, row by row
Aligned ==
    /\ Len(game_features) = Len(games_data)
    /\ Len(similarity_matrix) = Len(games_data)
    /\ \A i \in 1..Len(similarity_matrix) : Len(similarity_matrix[i]) = Len(games_data)
    /\ similarity_matrix = fill_diagonal(cosine_similarity(game_features, game_features))
    /\ feature_extractor.is_fitted =>
           game_features = extract_all_features(feature_extractor, games_data).matrix

\* C15: in every state in which the model is trained, after any sequence of
\* train, failed train, query, save and load, games_data, the feature matrix
\* and the similarity matrix have the same number of rows N, the similarity
\* matrix is N x N, and row i of each matrix belongs to games_data[i].
C15_AlignmentInvariant == is_trained => Aligned

\* C16: in every state in which the model is trained every diagonal entry
\* of the similarity matrix is 0, so no game's similarity to itself stands
\* ahead of a candidate with positive similarity in its own row.
C16_DiagonalZero ==
    is_trained => \A i \in 1..Len(similarity_matrix) : similarity_matrix[i][i] = 0

\* a trained model in which some row has a candidate with positive similarity
C16_Witness ==
    /\ is_trained
    /\ Len(similarity_matrix) >= MinTrainingGames
    /\ \E i, j \in 1..Len(similarity_matrix) : i # j /\ similarity_matrix[i][j] > 0

\* the step is a call that reaches extract_all_features
CallsExtractor ==
    \/ ret'.op = "train" /\ ret'.error # "InsufficientData"
    \/ ret'.op = "get_similar_games_by_text" /\ ret'.error # "NotTrained"

\* vocabulary, encoders and scaler are learned and the flag is set
FullyFitted(fx) ==
    /\ fx.is_fitted
    /\ fx.tfidf_vectorizer.state = "fitted"
    /\ Len(fx.label_encoders) = Len(CategoricalFeatures)
    /\ fx.scaler.fitted

\* C17: a new feature extractor is unfitted with no vectorizer and no
\* encoders; the first extract_all_features call fits vocabulary, encoders
\* and scaler and marks it fitted; every later extract_all_features call
\* leaves vocabulary, encoders and scaler unchanged (transform only); the
\* extractor never returns to unfitted.
C17_ExtractorLifecycle ==
    /\ ~feature_extractor.is_fitted
    /\ feature_extractor.tfidf_vectorizer.state = "none"
    /\ feature_extractor.label_encoders = <<>>
    /\ [][/\ (CallsExtractor /\ ~feature_extractor.is_fitted) => FullyFitted(feature_extractor')
          /\ (CallsExtractor /\ feature_extractor.is_fitted) =>
                 feature_extractor' = feature_extractor
          /\ feature_extractor.is_fitted => feature_extractor'.is_fitted]_vars

\* the codes in the rows of matrix are those of the fitted encoders of fx:
\* a label seen at fit time has the position it got then, an unseen one 0
EncodedAsFitted(fx, games, matrix) ==
    \A i \in 1..Len(games), c \in 1..Len(CategoricalFeatures) :
        LET label   == CompositeLabel(games[i], CategoricalFeatures[c])
            classes == fx.label_encoders[c]
            code    == matrix[i][Len(fx.tfidf_vectorizer.vocabulary) + c]
        IN  IF label \in Range(classes) THEN classes[code + 1] = label ELSE code = 0

\* some label of the games is not among the fitted classes of fx
HasUnseenLabel(fx, games) ==
    \E i \in 1..Len(games), c \in 1..Len(CategoricalFeatures) :
        CompositeLabel(games[i], CategoricalFeatures[c]) \notin Range(fx.label_encoders[c])

\* C18: on a fitted extractor a record, or a text query, whose composite
\* categorical label was not seen at fit time never makes the extraction
\* raise; that label is encoded as 0, and every label seen at fit time is
\* encoded with the code it received then.
C18_UnseenLabelIsZero ==
    [][/\ (feature_extractor.is_fitted /\ ret'.op = "train"
              /\ ret'.error # "InsufficientData") =>
                 /\ ret'.error = "none"
                 /\ EncodedAsFitted(feature_extractor, games_data', game_features')
       /\ (feature_extractor.is_fitted /\ ret'.op = "get_similar_games_by_text") =>
              LET games == <<DummyGame(ret'.query_text)>>
                  ex    == extract_all_features(feature_extractor, games)
              IN  /\ ex.error = "none"
                  /\ EncodedAsFitted(feature_extractor, games, ex.matrix)]_vars

\* a retrain on a fitted extractor with a record whose label is new, and
\* with a known label whose code is not 0
C18_Witness ==
    /\ ret.op = "train" /\ ret.error = "none"
    /\ HasUnseenLabel(feature_extractor, games_data)
    /\ \E i \in 1..Len(games_data), c \in 1..Len(CategoricalFeatures) :
           /\ CompositeLabel(games_data[i], CategoricalFeatures[c])
                  \in Range(feature_extractor.label_encoders[c])
           /\ game_features[i][Len(feature_extractor.tfidf_vectorizer.vocabulary) + c] > 0

\* C19: train() on an already trained instance with a new corpus produces
\* the same games_data, feature matrix, similarity matrix and extractor fit
\* state (vocabulary, encoders, scaler) as train() of a new instance on
\* that corpus.
C19_RetrainEqualsFreshTrain ==
    (ret.op = "train" /\ ret.error = "none") =>
        \A fresh \in {train(NewSelf, ret.games).self} :
            /\ games_data = fresh.games_data
            /\ game_features = fresh.game_features
            /\ similarity_matrix = fresh.similarity_matrix
            /\ feature_extractor = fresh.feature_extractor

\* the test games of the last evaluate_model call for which
\* get_recommendations with top_k = 5 and no exclusion returns an entry
CoveredGames ==
    {i \in 1..Len(ret.test_games) :
        \E r \in {get_recommendations(Self, ret.test_games[i].id, EvalTopK, FALSE)} :
            r.error = "none" /\ Len(r.recommendations) >= 1}

\* C20: evaluate_model on a trained model does not raise, not even for a
\* test record whose id is absent from the corpus, and returns test_samples,
\* the number of test records, and coverage, the share of the test records
\* for which get_recommendations with top_k = 5 and no exclusion returned
\* at least one entry: 0 for an empty test list, and between 0 and 1.
C20_EvaluateCoverage ==
    (ret.op = "evaluate_model" /\ is_trained) =>
        /\ ret.error = "none"
        /\ ret.results.test_samples = Len(ret.test_games)
        /\ ret.results.coverage =
               IF Len(ret.test_games) = 0 THEN 0
               ELSE (Cardinality(CoveredGames) * CoverageScale) \div Len(ret.test_games)
        /\ ret.results.coverage \in 0..CoverageScale

\* C21: a record without an id is excluded when the data is prepared: the
\* corpus of a trained model holds no record whose id is missing, so no
\* query over it meets a record without an id.
C21_NoRecordWithoutId ==
    is_trained => \A i \in 1..Len(games_data) : games_data[i].id # None

\* the raw record has a value for the key, and it is not None
Present(raw_game, key) == key \in DOMAIN raw_game /\ raw_game[key].type # "none"

\* the flags of the clean record mirror the raw record
FlagsMirror(raw_game, clean_game) ==
    /\ clean_game # EmptyDict
    /\ clean_game.has_summary <=>
           (Present(raw_game, "summary") /\ NonBlank(raw_game.summary.value))
    /\ clean_game.has_rating <=> Present(raw_game, "rating")
    /\ clean_game.has_genres <=> Len(clean_game.genre_names) > 0
    /\ clean_game.has_platforms <=> Len(clean_game.platform_names) > 0
    /\ ~Present(raw_game, "rating_count") => clean_game.rating_count = 0
    /\ (/\ ~Present(raw_game, "rating") /\ ~Present(raw_game, "summary")
        /\ ~Present(raw_game, "rating_count")
        /\ Get(raw_game, "genres", PyList(<<>>)) = PyList(<<>>)) =>
           /\ ~clean_game.has_summary /\ ~clean_game.has_rating
           /\ clean_game.rating_count = 0
           /\ prepare_data(<<clean_game>>) = <<>>

\* C22: for every raw record transform_game yields flags that mirror the
\* data: has_summary iff the trimmed summary is not empty, has_rating iff
\* the rating is present, has_genres iff genre_names is not empty,
\* has_platforms iff platform_names is not empty, rating_count 0 when it is
\* absent; so a record with no rating, no summary and no genres gets
\* has_summary false, has_rating false, rating_count 0 and is dropped by
\* prepare_data.
C22_FlagsMirrorData ==
    ret.op = "transform_game" => FlagsMirror(ret.raw_game, ret.clean_game)

\* C23: a step of a get_recommendations call leaves games_data, the feature
\* matrix, the similarity matrix, the trained flag and the feature extractor
\* as they were, and the call that has come to its end, whatever ran between
\* its steps, holds the result of the call run in one piece.
C23_RecommendationsReadOnly ==
    [][\A t \in Threads :
          IsQuery(threads[t], "get_recommendations") /\ threads'[t] # threads[t]
          => /\ UNCHANGED model_vars
             /\ threads'[t] # Idle /\ threads'[t].pc = "done"
                => threads'[t].result =
                       get_recommendations(Self, threads[t].game_id, threads[t].top_k,
                                           threads[t].exclude_played)]_vars

\* two overlapping get_recommendations calls have both returned recommendations
C23_Witness ==
    \A t \in Threads :
        /\ IsQuery(threads[t], "get_recommendations")
        /\ threads[t].pc = "done"
        /\ threads[t].result.error = "none"
        /\ Len(threads[t].result.recommendations) = MaxTopK

\* C24: the flag flip of get_similar_games_by_text is a critical section.  A
\* text query that no other text query overlaps extracts with the extractor
\* marked fitted and leaves the flag as it found it; the witness is an
\* interleaving of two text queries in which an extraction ran with the
\* extractor marked unfitted and the flag after both differs from the flag
\* before them.
C24_FlagFlipIsCriticalSection ==
    [][\A t \in Threads :
          /\ IsQuery(threads[t], "get_similar_games_by_text")
          /\ threads[t].pc = "restore"
          /\ threads'[t] # Idle /\ threads'[t].pc = "done"
          /\ threads[t].alone
          => /\ threads[t].extracted_fitted
             /\ feature_extractor'.is_fitted = threads[t].before]_vars

\* two overlapping text queries have ended: one extracted with the extractor
\* marked unfitted, and the flag is not what it was before the first of them
C24_Witness ==
    /\ \A t \in Threads :
        /\ IsQuery(threads[t], "get_similar_games_by_text")
        /\ threads[t].pc = "done"
        /\ ~threads[t].alone
    /\ \E t \in Threads : ~threads[t].extracted_fitted
    /\ \E t \in Threads :
        threads[t].first /\ feature_extractor.is_fitted # threads[t].before

HadId(game) == "id" \in DOMAIN game /\ game["id"].type # "none"

IdsSaved(games) == {games[i]["id"].value : i \in {j \in 1..Len(games) : HadId(games[j])}}

LastSaveOf(games, id) ==
    games[CHOOSE i \in 1..Len(games) :
              /\ HadId(games[i]) /\ games[i]["id"].value = id
              /\ \A j \in (i + 1)..Len(games) :
                    ~(HadId(games[j]) /\ games[j]["id"].value = id)]

\* C25: a save_games call that returns gives the number of records of the
\* batch that had an id, and after it the games table holds one row for every
\* id saved so far: the row of the last record of the batch with that id, or
\* the row it held before when the batch has no record with that id.
C25_DeduplicationById ==
    [][ret'.op = "save_games" /\ ret'.error = "none"
       => /\ ret'.saved_count =
                 Cardinality({i \in 1..Len(ret'.games) : HadId(ret'.games[i])})
          /\ DOMAIN db'.games = DOMAIN db.games \cup IdsSaved(ret'.games)
          /\ \A id \in DOMAIN db'.games :
                db'.games[id] =
                    IF id \in IdsSaved(ret'.games)
                    THEN _prepare_game_data(LastSaveOf(ret'.games, id))
                    ELSE db.games[id]]_vars

\* C26: fetch_if_needed on a store that holds the target makes no upstream
\* call, leaves the store as it is and returns its count; otherwise it makes
\* one upstream call, for the target less the count, and a call that returns
\* has saved the records that came back and returns the count of the store
\* after the save.
C26_FetchOnlyWhatIsNeeded ==
    [][ret'.op = "fetch_if_needed"
       => IF count_games(db) >= ret'.target_count
          THEN /\ ret'.requests = <<>>
               /\ ret'.error = "none"
               /\ ret'.result = count_games(db)
               /\ db' = db
          ELSE /\ ret'.requests = <<ret'.target_count - count_games(db)>>
               /\ ret'.error = "none"
                  => /\ \A id \in IdsSaved(ret'.upstream.games) :
                           /\ id \in DOMAIN db'.games
                           /\ db'.games[id] =
                                  _prepare_game_data(LastSaveOf(ret'.upstream.games, id))
                     /\ \A id \in DOMAIN db.games \ IdsSaved(ret'.upstream.games) :
                           id \in DOMAIN db'.games /\ db'.games[id] = db.games[id]
                     /\ ret'.result = count_games(db')]_vars

\* a store that held games but fewer than the target was filled up by one
\* request for the difference
C26_Witness ==
    /\ ret.op = "fetch_if_needed"
    /\ ret.error = "none"
    /\ Len(ret.requests) = 1
    /\ ret.requests[1] < ret.target_count
    /\ ret.result = ret.target_count
    /\ Len(ret.upstream.games) = ret.requests[1]

C28_FailedTrainLeavesModel ==
    [][ret'.op = "train" /\ ret'.error = "InsufficientData"
       => UNCHANGED <<games_data, game_features, similarity_matrix, is_trained,
                      feature_extractor>>]_vars

\* C29: save_model writes the model artifact and the feature-extractor
\* artifact to two distinct paths, and after it the file at the given path
\* holds the model data and the file at the other path the extractor.
C29_ArtifactsAtDistinctPaths ==
    [][ret'.op = "save_model"
       => /\ FeatureExtractorPath(ret'.filepath) # ret'.filepath
          /\ files'[ret'.filepath].kind = "model"
          /\ files'[FeatureExtractorPath(ret'.filepath)].kind = "extractor"]_vars

Decides(response) == response.kind \in {"ok", "undecodable"}

\* the first answer that is a success or cannot be decoded, 0 when none is
FirstDeciding(responses) ==
    IF \E i \in 1..Len(responses) : Decides(responses[i])
    THEN CHOOSE i \in 1..Len(responses) :
             /\ Decides(responses[i])
             /\ \A j \in 1..(i - 1) : ~Decides(responses[j])
    ELSE 0

RequestOutcome ==
    http.pc = "done" /\ http.outcome # "NotAuthenticated"
    => /\ Len(http.responses) <= http.max_retries + 1
       /\ http.outcome = "returned"
       /\ LET first == FirstDeciding(http.responses)
          IN  IF first = 0
              THEN http.result = <<>>
              ELSE /\ Len(http.responses) = first
                   /\ http.result = http.responses[first].body

\* C30: a call of _make_request on an authenticated client comes to its end;
\* at its end it has made at most max_retries + 1 requests and has returned:
\* the decoded body of the first successful answer, or the empty list when an
\* answer could not be decoded or every attempt has failed.
C30_RequestTerminates ==
    /\ []RequestOutcome
    /\ (http.pc = "request") ~> (http.pc = "done")

====
